---- MODULE Spec2Model ----
(***************************************************************************)
(* The per-conversation game session controller (game.Session) and the    *)
(* session registry (game.SessionManager) of wfrp-game-master, as a state *)
(* machine of goroutines.                                                  *)
(*                                                                         *)
(* Transport goroutines call the exported operations; every Session.Start *)
(* spawns the session's watchdog goroutine (checkInputsLoop).  A step of   *)
(* the model is the code between two points where a goroutine can block    *)
(* (a mutex acquisition, the LLM round trip).  sync.RWMutex is not         *)
(* re-entrant: Lock blocks while the mutex is held by anyone, the caller   *)
(* included, and RLock blocks while a writer holds it.                     *)
(***************************************************************************)
EXTENDS Integers, FiniteSets, Sequences, TLC

\* ---------------------------------------------------------------- bounds
NumProcs == 2
NumChats == 2
NumSessions == 2
NumPlayers == 1
\* The clock advances ClockStep minutes at a time, up to MaxNow minutes.
ClockStep == 31
MaxNow == 62

\* ------------------------------------------------------- program constants
\* checkTimeout: "inactivity > 30*time.Minute"
TimeoutMinutes == 30

Procs == 1..NumProcs
Chats == 1..NumChats
Sessions == 1..NumSessions
Players == 1..NumPlayers
\* The session object that Spec exercises.
SessionUnderTest == {1}

\* "no goroutine", "no session" (a nil *Session, an absent map key)
None == 0

\* SessionState
StateIdle == "Idle"
StateActive == "Active"
StateProcessing == "Processing"
StatePaused == "Paused"

\* How the LLM capability handed to NewSession answers a request.
Providers == {"ok", "fail"}

\* What a call returned: the error (ErrNil when none) and the output.
ErrNil == "nil"
ErrNoSession == "no active session for chat"
ErrNotActive == "session is not active"
ErrGenerate == "failed to generate response"
ErrStream == "failed to stream response"
NoRes == [err |-> "none", id |-> None, out |-> None]

VARIABLES
    sessions,      \* SessionManager.sessions: chat id -> session, None if absent
    smW,           \* SessionManager.mu: the goroutine holding it for writing
    smR,           \* SessionManager.mu: the goroutines holding it for reading
    registered,    \* history: per chat id, the session of the last AddSession
                   \* that no RemoveSession followed (None if there is none)
    State,         \* Session.State
    LastActivity,  \* Session.LastActivity, in minutes
    Characters,    \* Session.Characters: player -> sheet (None: no character)
    cancelled,     \* Session.ctx is done (Session.cancel was called)
    muW,           \* Session.mu: the goroutine holding it for writing
    llmProvider,   \* Session.llmProvider: the capability given to NewSession
    wd,            \* the position of the session's watchdog goroutine
    now,           \* time.Now(), in minutes
    op,            \* the operation each transport goroutine is running
    pc,            \* its position in it
    arg,           \* the operation's arguments
    res,           \* what the operation returned
    ccState,       \* CharacterCreator.State
    ccData,        \* CharacterCreator.Data
    ccLLM,         \* CharacterCreator.LLMProvider is set (not nil)
    ccCall,        \* the last CharacterCreator.ProcessInput call: its input,
                   \* its dice, the LLM's answer and what it returned
    updSheet,      \* a character sheet, as ApplyCharacterUpdate is given it
    updResponse,   \* an LLM response, as ParseCharacterUpdateFromResponse is given it
    updParsed,     \* what ParseCharacterUpdateFromResponse returned (NoParse: not called)
    updUpdate,     \* the CharacterUpdate given to ApplyCharacterUpdate
    updOut,        \* the sheet ApplyCharacterUpdate returned and who called it
                   \* (NoSheet: not called)
    botPc,         \* Bot.processUpdates: the position of its goroutine
    botUpdate,     \* the update HandleUpdate is running on (NoUpdate: none)
    botInFlight,   \* the HandleUpdate calls begun and not returned
    creators,      \* CommandHandlers.characterCreators: the chats with a creator
    charFile,      \* the file SaveToFile wrote last: character_<name>.md
    botLast,       \* history: what the last HandleUpdate that returned did
    strQueue,      \* Streamer.queue: the jobs sent to the channel and not taken
    strJobs,       \* per job: its caller's position in Stream, its number of
                   \* chunks and its resultChan (buffer of one)
    strWorker,     \* Streamer.processQueue: the position of its goroutine
    strSent,       \* history: the chunks handed to the bot, as <<job, chunk>>
    pmProvider,    \* ProviderManager.currentProvider
    pmConfig,      \* ProviderManager.config
    pmMu,          \* ProviderManager.mu: the goroutine holding it
    pmCall         \* per goroutine: its position in ReloadProvider or in a read

vars == <<sessions, smW, smR, registered, State, LastActivity, Characters, cancelled, muW,
          llmProvider, wd, now, op, pc, arg, res, ccState, ccData, ccLLM, ccCall,
          updSheet, updResponse, updParsed, updUpdate, updOut,
          botPc, botUpdate, botInFlight, creators, charFile, botLast,
          strQueue, strJobs, strWorker, strSent, pmProvider, pmConfig, pmMu, pmCall>>

ccVars == <<ccState, ccData, ccLLM, ccCall>>

updVars == <<updSheet, updResponse, updParsed, updUpdate, updOut>>

botVars == <<botPc, botUpdate, botInFlight, creators, charFile, botLast>>

strVars == <<strQueue, strJobs, strWorker, strSent>>

pmVars == <<pmProvider, pmConfig, pmMu, pmCall>>

mgrVars == <<sessions, smW, smR, registered>>
sessVars == <<State, LastActivity, Characters, cancelled, muW, llmProvider, wd>>

NoArg == [chat |-> None, sess |-> None, player |-> None]

\* ------------------------------------------------------------------ mutexes
\* sync.RWMutex.Lock returns only while nobody holds the mutex.  The read
\* sections of Session.mu hold no suspension point, so they are single steps
\* and Session.mu has no reader between steps.
CanLock(s) == muW[s] = None
\* sync.RWMutex.RLock returns only while no writer holds the mutex.
CanRLock(s) == muW[s] = None

\* sm.mu.Lock() first excludes the other writers and announces itself to the
\* readers (SM_LockAnnounce), then waits until the readers that hold the mutex
\* have left; smW is the writer from its announcement to its Unlock.
\* SMCanLock not waiting for the readers:
SMCanLockAmongReaders(p) == smW = p

SMCanLock(p) == smW = p /\ smR = {}
\* sm.mu.RLock() returns only while no writer holds the mutex or is announced.
SMCanRLock == smW = None

\* ============================================================ the creator
\* game.CharacterCreator, the character creation state machine.  One creator
\* (one chat's) is modelled; the bot hands it one message at a time.
\*
\* ------------------------------------------------------------------ strings
\* A Go string is written as the sequence of its characters.  An ASCII
\* character stands for itself; the Cyrillic letters are written "c:" and
\* "C:" (capital) with a Latin transliteration, the two guillemets "q:<<"
\* and "q:>>", the two CJK characters of ProcessInput "h:sheng", "h:cheng".
CyrLower ==
    {"c:a", "c:b", "c:c", "c:ch", "c:d", "c:e", "c:eh", "c:f", "c:g", "c:h",
     "c:hard", "c:i", "c:j", "c:k", "c:l", "c:m", "c:n", "c:o", "c:p", "c:r",
     "c:s", "c:sch", "c:sh", "c:soft", "c:t", "c:u", "c:v", "c:y", "c:ya",
     "c:yo", "c:yu", "c:z", "c:zh"}
CyrUpper ==
    {"C:a", "C:b", "C:c", "C:ch", "C:d", "C:e", "C:eh", "C:f", "C:g", "C:h",
     "C:hard", "C:i", "C:j", "C:k", "C:l", "C:m", "C:n", "C:o", "C:p", "C:r",
     "C:s", "C:sch", "C:sh", "C:soft", "C:t", "C:u", "C:v", "C:y", "C:ya",
     "C:yo", "C:yu", "C:z", "C:zh"}
AsciiUpper == {"A", "D", "G", "I", "N", "Y"}

\* unicode.ToLower, on the characters in use
UpperToLower ==
    ("A" :> "a") @@ ("D" :> "d") @@ ("G" :> "g") @@ ("I" :> "i") @@ ("N" :> "n") @@
    ("Y" :> "y") @@ ("C:a" :> "c:a") @@ ("C:b" :> "c:b") @@ ("C:c" :> "c:c") @@
    ("C:ch" :> "c:ch") @@ ("C:d" :> "c:d") @@ ("C:e" :> "c:e") @@ ("C:eh" :> "c:eh") @@
    ("C:f" :> "c:f") @@ ("C:g" :> "c:g") @@ ("C:h" :> "c:h") @@
    ("C:hard" :> "c:hard") @@ ("C:i" :> "c:i") @@ ("C:j" :> "c:j") @@
    ("C:k" :> "c:k") @@ ("C:l" :> "c:l") @@ ("C:m" :> "c:m") @@ ("C:n" :> "c:n") @@
    ("C:o" :> "c:o") @@ ("C:p" :> "c:p") @@ ("C:r" :> "c:r") @@ ("C:s" :> "c:s") @@
    ("C:sch" :> "c:sch") @@ ("C:sh" :> "c:sh") @@ ("C:soft" :> "c:soft") @@
    ("C:t" :> "c:t") @@ ("C:u" :> "c:u") @@ ("C:v" :> "c:v") @@ ("C:y" :> "c:y") @@
    ("C:ya" :> "c:ya") @@ ("C:yo" :> "c:yo") @@ ("C:yu" :> "c:yu") @@
    ("C:z" :> "c:z") @@ ("C:zh" :> "c:zh")
LowerOf(c) == IF c \in DOMAIN UpperToLower THEN UpperToLower[c] ELSE c

\* the number of bytes of the character's UTF-8 encoding
Utf8Len(c) ==
    IF c \in CyrLower \cup CyrUpper \cup {"q:<<", "q:>>"} THEN 2
    ELSE IF c \in {"h:sheng", "h:cheng"} THEN 3
    ELSE 1

\* strings.ToLower
ToLower(s) == [i \in 1..Len(s) |-> LowerOf(s[i])]

\* len(s): the length in bytes
RECURSIVE ByteLen(_)
ByteLen(s) == IF s = <<>> THEN 0 ELSE Utf8Len(Head(s)) + ByteLen(Tail(s))

\* strings.Trim(s, cutset): the characters of cutset removed at both ends
RECURSIVE TrimLeft(_, _)
TrimLeft(s, cutset) ==
    IF s # <<>> /\ Head(s) \in cutset THEN TrimLeft(Tail(s), cutset) ELSE s
RECURSIVE TrimRight(_, _)
TrimRight(s, cutset) ==
    IF s # <<>> /\ s[Len(s)] \in cutset
      THEN TrimRight(SubSeq(s, 1, Len(s) - 1), cutset) ELSE s
Trim(s, cutset) == TrimRight(TrimLeft(s, cutset), cutset)

\* strings.TrimSpace
WhiteSpace == {" ", "\n", "\t", "\r"}
TrimSpace(s) == Trim(s, WhiteSpace)

\* strings.HasPrefix, strings.Contains
HasPrefix(s, pat) == Len(pat) <= Len(s) /\ SubSeq(s, 1, Len(pat)) = pat
Contains(s, pat) ==
    \E i \in 0..(Len(s) - Len(pat)) : SubSeq(s, i + 1, i + Len(pat)) = pat

\* strings.ReplaceAll(s, pat, ""), pat not empty: the occurrences of pat are
\* taken out from left to right
RECURSIVE RemoveAll(_, _)
RemoveAll(s, pat) ==
    IF s = <<>> THEN <<>>
    ELSE IF HasPrefix(s, pat) THEN RemoveAll(SubSeq(s, Len(pat) + 1, Len(s)), pat)
    ELSE <<Head(s)>> \o RemoveAll(Tail(s), pat)

\* strconv.Atoi: an optional sign and decimal digits, nothing else; the
\* result is [ok |-> err == nil, val |-> the number]
Digits == {"0", "1", "2", "3", "4", "5", "6", "7", "8", "9"}
DigitVal(c) ==
    CASE c = "0" -> 0 [] c = "1" -> 1 [] c = "2" -> 2 [] c = "3" -> 3 [] c = "4" -> 4
      [] c = "5" -> 5 [] c = "6" -> 6 [] c = "7" -> 7 [] c = "8" -> 8 [] c = "9" -> 9
RECURSIVE DecVal(_)
DecVal(ds) ==
    IF ds = <<>> THEN 0 ELSE 10 * DecVal(SubSeq(ds, 1, Len(ds) - 1)) + DigitVal(ds[Len(ds)])
Atoi(s) ==
    LET signed == s # <<>> /\ Head(s) \in {"+", "-"}
        ds == IF signed THEN Tail(s) ELSE s
    IN  IF ds # <<>> /\ \A i \in 1..Len(ds) : ds[i] \in Digits
          THEN [ok |-> TRUE, val |-> IF signed /\ Head(s) = "-" THEN 0 - DecVal(ds) ELSE DecVal(ds)]
          ELSE [ok |-> FALSE, val |-> 0]

\* ------------------------------------------------ the words the code knows
QuestionMark == <<"?">>
Kak == <<"c:k", "c:a", "c:k">>
ChtoTakoe == <<"c:ch", "c:t", "c:o", " ", "c:t", "c:a", "c:k", "c:o", "c:e">>
Obyasni == <<"c:o", "c:b", "c:hard", "c:ya", "c:s", "c:n", "c:i">>
Rasskazhi == <<"c:r", "c:a", "c:s", "c:s", "c:k", "c:a", "c:zh", "c:i">>
Podrobnej == <<"c:p", "c:o", "c:d", "c:r", "c:o", "c:b", "c:n", "c:e", "c:j">>
Pomogi == <<"c:p", "c:o", "c:m", "c:o", "c:g", "c:i">>
Smozhesh == <<"c:s", "c:m", "c:o", "c:zh", "c:e", "c:sh", "c:soft">>
Mozhesh == <<"c:m", "c:o", "c:zh", "c:e", "c:sh", "c:soft">>
SgeneriImya == <<"c:s", "c:g", "c:e", "c:n", "c:e", "c:r", "c:i", " ", "c:i", "c:m", "c:ya">>
SgeneriSam == <<"c:s", "c:g", "c:e", "c:n", "c:e", "c:r", "c:i", " ", "c:s", "c:a", "c:m">>
ShengChengImya == <<"h:sheng", "h:cheng", " ", "c:i", "c:m", "c:ya">>
GenerateName == <<"g", "e", "n", "e", "r", "a", "t", "e", " ", "n", "a", "m", "e">>
Sgeneri == <<"c:s", "c:g", "c:e", "c:n", "c:e", "c:r", "c:i">>
Generate == <<"g", "e", "n", "e", "r", "a", "t", "e">>
Da == <<"c:d", "c:a">>
Yes == <<"y", "e", "s">>
Y == <<"y">>
One == <<"1">>
DavajDrugoe == <<"c:d", "c:a", "c:v", "c:a", "c:j", " ", "c:d", "c:r", "c:u", "c:g", "c:o", "c:e">>
Drugoe == <<"c:d", "c:r", "c:u", "c:g", "c:o", "c:e">>
Eschyo == <<"c:e", "c:sch", "c:yo">>
Esche == <<"c:e", "c:sch", "c:e">>
Drug == <<"c:d", "c:r", "c:u", "c:g">>
Brosit == <<"c:b", "c:r", "c:o", "c:s", "c:i", "c:t", "c:soft">>
Roll == <<"r", "o", "l", "l">>
Random == <<"r", "a", "n", "d", "o", "m">>
ChelovekLower == <<"c:ch", "c:e", "c:l", "c:o", "c:v", "c:e", "c:k">>
PoluroslikLower == <<"c:p", "c:o", "c:l", "c:u", "c:r", "c:o", "c:s", "c:l", "c:i", "c:k">>
GnomLower == <<"c:g", "c:n", "c:o", "c:m">>
VysshijElfLower == <<"c:v", "c:y", "c:s", "c:sh", "c:i", "c:j", " ", "c:eh", "c:l", "c:soft", "c:f">>
ElfLower == <<"c:eh", "c:l", "c:soft", "c:f">>
LesnojElfLower == <<"c:l", "c:e", "c:s", "c:n", "c:o", "c:j", " ", "c:eh", "c:l", "c:soft", "c:f">>
Two == <<"2">>
Three == <<"3">>
Four == <<"4">>
Five == <<"5">>

\* --------------------------------------------------------------- the data
\* CharacterCreationState
CC_Idle == 0
CC_Name == 1
CC_Race == 2
CC_Career == 3
CC_Stats == 4
CC_Skills == 5
CC_Talents == 6
CC_Gear == 7
CC_Appearance == 8
CC_Personality == 9
CC_Review == 10
CC_Save == 11
CC_Complete == 12

\* The races, by the names the code gives them, transliterated.
Chelovek == "Chelovek"
Poluroslik == "Poluroslik"
Gnom == "Gnom"
VysshijElf == "Vysshij elf"
LesnojElf == "Lesnoj elf"

\* The ten characteristics.
CharNames == {"WS", "BS", "S", "T", "I", "Ag", "Dex", "Int", "WP", "Fel"}

\* NewCharacterCreator: the zero CharacterCreationData (the skills, talents
\* and gear, which no step writes, and BasePath are left out)
NewData ==
    [Name |-> <<>>, Race |-> "", RaceBonusXP |-> 0, RaceMethod |-> "",
     Class |-> "", Career |-> [class |-> "", pick |-> 0, withClass |-> FALSE], CareerRank |-> "", Status |-> "",
     StatusLevel |-> 0, CareerXP |-> 0, CareerMethod |-> "",
     Chars |-> [c \in CharNames |-> 0],
     HP |-> 0, Fate |-> 0, Fortune |-> 0, Resilience |-> 0, Resolve |-> 0,
     Movement |-> 0, Money |-> 0,
     StatsMethod |-> "", TotalXP |-> 0, XPFromRace |-> 0, XPFromStats |-> 0,
     XPFromCareer |-> 0,
     HairColor |-> 0, EyeColor |-> 0, Age |-> 0, Height |-> 0,
     Strengths |-> <<>>, Weaknesses |-> <<>>, Background |-> <<>>,
     Motivation |-> ""]

\* No call yet.
NoCall == [dice |-> <<>>, llm |-> [kind |-> "none", text |-> <<>>], msg |-> "none",
           prompt |-> CC_Idle, ok |-> FALSE]

\* NewCharacterCreator, and SetLLMProvider or not, as NewCharCommand does
NewCharacterCreator(llms) ==
    /\ ccState = CC_Name
    /\ ccData = NewData
    /\ ccLLM \in llms
    /\ ccCall = NoCall

\* ------------------------------------------------------------- the inputs
\* The messages a player sends, and what the LLM answers to the name request.
In_Ivan == <<"C:i", "c:v", "c:a", "c:n">>
In_I == <<"C:i">>
In_Da == <<"C:d", "c:a">>
In_Net == <<"c:n", "c:e", "c:t">>
In_SgeneriImya == <<"c:s", "c:g", "c:e", "c:n", "c:e", "c:r", "c:i", " ", "c:i", "c:m", "c:ya">>
In_SgeneriQ == <<"C:s", "c:g", "c:e", "c:n", "c:e", "c:r", "c:i", " ", "c:i", "c:m", "c:ya", "?">>
In_Kak == <<"C:k", "c:a", "c:k", " ", "c:v", "c:y", "c:b", "c:r", "c:a", "c:t", "c:soft", "?">>
In_Brosit == <<"C:b", "c:r", "c:o", "c:s", "c:i", "c:t", "c:soft">>
In_1 == <<"1">>
In_2 == <<"2">>
In_3 == <<"3">>
In_7 == <<"7">>

Inputs ==
    {In_Ivan, In_I, In_Da, In_Net, In_SgeneriImya, In_SgeneriQ, In_Kak, In_Brosit,
     In_1, In_2, In_3, In_7}

Aldrik == <<"C:a", "c:l", "c:soft", "c:d", "c:r", "c:i", "c:k">>
\* What the provider did in a call: not asked, failed, or answered with a text.
NoLLM == [kind |-> "none", text |-> <<>>]
LLMFailed == [kind |-> "error", text |-> <<>>]
LLMAnswered(text) == [kind |-> "answer", text |-> text]
\* a name, a name in markdown emphasis and quotes with a line end, nothing
LLMNames ==
    {Aldrik,
     <<"*", "*", "q:<<", "C:a", "c:l", "c:soft", "c:d", "c:r", "c:i", "c:k", "q:>>", "*", "*", "\n">>,
     <<>>}

\* What the call returns: the message, the prompt of a state appended to it
\* (CC_Idle: none) and the flag; with the call's dice and LLM outcome.
Returns(dice, llm, msg, prompt, ok) ==
    ccCall' = [dice |-> dice, llm |-> llm, msg |-> msg, prompt |-> prompt, ok |-> ok]

\* IsLLMQuestion
QuestionPatterns ==
    {QuestionMark, Kak, ChtoTakoe, Obyasni, Rasskazhi, Podrobnej, Pomogi, Smozhesh, Mozhesh}
IsLLMQuestion(input) ==
    LET lower == ToLower(TrimSpace(input))
    IN  \E pattern \in QuestionPatterns : Contains(lower, pattern)

\* generateName with no clean-up but the trimming of white space
SanitizeNameTrimOnly(name) == TrimSpace(name)

\* generateName: the clean-up of the LLM's answer
SanitizeName(name) ==
    Trim(RemoveAll(RemoveAll(RemoveAll(TrimSpace(name), <<"*", "*">>), <<"*">>), <<"_">>),
         {"\"", "q:<<", "q:>>", "-", "_"})

\* generateName that forgets the name when the provider fails
generateNameForgetting(input) ==
    IF ~ccLLM
      THEN /\ Returns(<<>>, NoLLM, "llm_unavailable_write_name", CC_Idle, FALSE)
           /\ UNCHANGED <<ccState, ccData>>
      ELSE \E llm \in {LLMAnswered(name) : name \in LLMNames} \cup {LLMFailed} :
             IF llm = LLMFailed
               THEN /\ Returns(<<>>, llm, "generate_failed_write_name", CC_Idle, FALSE)
                    /\ ccData' = [ccData EXCEPT !.Name = <<>>]
                    /\ UNCHANGED ccState
               ELSE /\ ccData' = [ccData EXCEPT !.Name = SanitizeName(llm.text)]
                    /\ Returns(<<>>, llm, "generated_name_confirm", CC_Idle, TRUE)
                    /\ UNCHANGED ccState

\* generateName
generateName(input) ==
    IF ~ccLLM
      THEN /\ Returns(<<>>, NoLLM, "llm_unavailable_write_name", CC_Idle, FALSE)
           /\ UNCHANGED <<ccState, ccData>>
      ELSE \E llm \in {LLMAnswered(name) : name \in LLMNames} \cup {LLMFailed} :
             IF llm = LLMFailed
               THEN /\ Returns(<<>>, llm, "generate_failed_write_name", CC_Idle, FALSE)
                    /\ UNCHANGED <<ccState, ccData>>
               ELSE /\ ccData' = [ccData EXCEPT !.Name = SanitizeName(llm.text)]
                    /\ Returns(<<>>, llm, "generated_name_confirm", CC_Idle, TRUE)
                    /\ UNCHANGED ccState

\* processLLMQuestion with an answer that also moves to the next step
processLLMQuestionAdvancing(input) ==
    /\ \E llm \in IF ccLLM THEN {LLMAnswered(<<>>), LLMFailed} ELSE {NoLLM} :
         IF llm = LLMFailed
           THEN /\ Returns(<<>>, llm, "llm_error", CC_Idle, FALSE)
                /\ UNCHANGED ccState
           ELSE /\ Returns(<<>>, llm, "explanation", ccState, TRUE)
                /\ ccState' = IF ccState < CC_Save THEN ccState + 1 ELSE ccState
    /\ UNCHANGED ccData

\* processLLMQuestion, AskLLM: without a provider AskLLM answers that the LLM
\* is unavailable, with no error
processLLMQuestion(input) ==
    /\ \E llm \in IF ccLLM THEN {LLMAnswered(<<>>), LLMFailed} ELSE {NoLLM} :
         IF llm = LLMFailed
           THEN Returns(<<>>, llm, "llm_error", CC_Idle, FALSE)
           ELSE Returns(<<>>, llm, "explanation", ccState, TRUE)
    /\ UNCHANGED <<ccState, ccData>>

\* processName that falls back to Idle when there is no name to confirm
processNameToIdle(input) ==
    LET inputLower == ToLower(TrimSpace(input)) IN
    IF inputLower \in {Da, Yes, Y}
      THEN IF ccData.Name # <<>>
             THEN /\ ccState' = CC_Race
                  /\ Returns(<<>>, NoLLM, "", CC_Race, TRUE)
                  /\ UNCHANGED ccData
             ELSE /\ Returns(<<>>, NoLLM, "name_not_set", CC_Idle, FALSE)
                  /\ ccState' = CC_Idle
                  /\ UNCHANGED ccData
    ELSE IF inputLower \in {DavajDrugoe, Drugoe, Eschyo, Esche} \/ Contains(inputLower, Drug)
      THEN IF ccLLM
             THEN generateName(input)
             ELSE /\ Returns(<<>>, NoLLM, "llm_unavailable", CC_Idle, FALSE)
                  /\ UNCHANGED <<ccState, ccData>>
    ELSE IF Contains(inputLower, Sgeneri) \/ inputLower = Generate
      THEN IF ccLLM
             THEN generateName(input)
             ELSE /\ Returns(<<>>, NoLLM, "llm_unavailable", CC_Idle, FALSE)
                  /\ UNCHANGED <<ccState, ccData>>
    ELSE IF ByteLen(input) < 2
      THEN /\ Returns(<<>>, NoLLM, "name_too_short", CC_Idle, FALSE)
           /\ UNCHANGED <<ccState, ccData>>
    ELSE /\ ccData' = [ccData EXCEPT !.Name = input]
         /\ ccState' = CC_Race
         /\ Returns(<<>>, NoLLM, "", CC_Race, TRUE)

\* processName
processName(input) ==
    LET inputLower == ToLower(TrimSpace(input)) IN
    IF inputLower \in {Da, Yes, Y}
      THEN IF ccData.Name # <<>>
             THEN /\ ccState' = CC_Race
                  /\ Returns(<<>>, NoLLM, "", CC_Race, TRUE)
                  /\ UNCHANGED ccData
             ELSE /\ Returns(<<>>, NoLLM, "name_not_set", CC_Idle, FALSE)
                  /\ UNCHANGED <<ccState, ccData>>
    ELSE IF inputLower \in {DavajDrugoe, Drugoe, Eschyo, Esche} \/ Contains(inputLower, Drug)
      THEN IF ccLLM
             THEN generateName(input)
             ELSE /\ Returns(<<>>, NoLLM, "llm_unavailable", CC_Idle, FALSE)
                  /\ UNCHANGED <<ccState, ccData>>
    ELSE IF Contains(inputLower, Sgeneri) \/ inputLower = Generate
      THEN IF ccLLM
             THEN generateName(input)
             ELSE /\ Returns(<<>>, NoLLM, "llm_unavailable", CC_Idle, FALSE)
                  /\ UNCHANGED <<ccState, ccData>>
    ELSE IF ByteLen(input) < 2
      THEN /\ Returns(<<>>, NoLLM, "name_too_short", CC_Idle, FALSE)
           /\ UNCHANGED <<ccState, ccData>>
    ELSE /\ ccData' = [ccData EXCEPT !.Name = input]
         /\ ccState' = CC_Race
         /\ Returns(<<>>, NoLLM, "", CC_Race, TRUE)

\* processRace with the halfling bucket one roll wider
RaceOfRollShifted(roll) ==
    IF roll <= 90 THEN Chelovek
    ELSE IF roll <= 95 THEN Poluroslik
    ELSE IF roll <= 98 THEN Gnom
    ELSE IF roll = 99 THEN VysshijElf
    ELSE LesnojElf

\* processRace: the race of a d100 roll
RaceOfRoll(roll) ==
    IF roll <= 90 THEN Chelovek
    ELSE IF roll <= 94 THEN Poluroslik
    ELSE IF roll <= 98 THEN Gnom
    ELSE IF roll = 99 THEN VysshijElf
    ELSE LesnojElf

\* applyRaceBonuses: the characteristics of the race, from the table
RaceTable(race) ==
    CASE race = Chelovek ->
           [WS |-> 30, BS |-> 30, S |-> 20, T |-> 20, I |-> 30, Ag |-> 30,
            Dex |-> 30, Int |-> 30, WP |-> 30, Fel |-> 30]
      [] race = Poluroslik ->
           [WS |-> 20, BS |-> 30, S |-> 10, T |-> 20, I |-> 30, Ag |-> 40,
            Dex |-> 30, Int |-> 30, WP |-> 30, Fel |-> 40]
      [] race = Gnom ->
           [WS |-> 40, BS |-> 30, S |-> 30, T |-> 40, I |-> 20, Ag |-> 20,
            Dex |-> 30, Int |-> 20, WP |-> 40, Fel |-> 20]
      [] race = VysshijElf ->
           [WS |-> 40, BS |-> 40, S |-> 20, T |-> 20, I |-> 40, Ag |-> 40,
            Dex |-> 40, Int |-> 40, WP |-> 30, Fel |-> 30]
      [] race = LesnojElf ->
           [WS |-> 30, BS |-> 30, S |-> 20, T |-> 20, I |-> 40, Ag |-> 40,
            Dex |-> 30, Int |-> 30, WP |-> 30, Fel |-> 30]
applyRaceBonuses(data) == [data EXCEPT !.Chars = RaceTable(data.Race)]

\* processRace: the races by number and by name
RacesByNumber == <<Chelovek, Poluroslik, Gnom, VysshijElf, LesnojElf>>
RaceNames ==
    {<<ChelovekLower, Chelovek>>, <<One, Chelovek>>,
     <<PoluroslikLower, Poluroslik>>, <<Two, Poluroslik>>,
     <<GnomLower, Gnom>>, <<Three, Gnom>>,
     <<VysshijElfLower, VysshijElf>>, <<Four, VysshijElf>>,
     <<ElfLower, VysshijElf>>,
     <<LesnojElfLower, LesnojElf>>, <<Five, LesnojElf>>}

\* processRace
processRace(rawInput) ==
    LET input == TrimSpace(ToLower(rawInput))
        choice == Atoi(input)
        manual(race) ==
            /\ ccData' = applyRaceBonuses([ccData EXCEPT !.Race = race, !.RaceMethod = "manual"])
            /\ ccState' = CC_Career
            /\ Returns(<<>>, NoLLM, "chose_race", CC_Career, TRUE)
    IN
    IF input \in {Brosit, Roll, Random}
      THEN \E roll \in 1..100 :
             LET d1 == [ccData EXCEPT !.RaceBonusXP = 20,
                                      !.Race = RaceOfRoll(roll),
                                      !.RaceMethod = "random"]
                 d2 == [d1 EXCEPT !.TotalXP = d1.TotalXP + d1.RaceBonusXP]
             IN
             /\ ccData' = applyRaceBonuses(d2)
             /\ ccState' = CC_Career
             /\ Returns(<<roll>>, NoLLM, "rolled_race", CC_Career, TRUE)
    ELSE IF choice.ok /\ choice.val >= 1 /\ choice.val <= Len(RacesByNumber)
      THEN manual(RacesByNumber[choice.val])
    ELSE IF \E e \in RaceNames : e[1] = input
      THEN manual((CHOOSE e \in RaceNames : e[1] = input)[2])
    ELSE /\ Returns(<<>>, NoLLM, "race_not_understood", CC_Idle, FALSE)
         /\ UNCHANGED <<ccState, ccData>>

\* ---------------------------------------------------------------- the dice
\* rand.Intn(100) + 1 of the career rolls, and rand.Intn(len(careerList))
CareerRolls == {1, 100}
CareerPicks == {0, 2}
\* the three rolls and picks of the second career option
ThreeRolls == {<<1, 100, 1>>, <<100, 1, 100>>}
ThreePicks == {<<0, 2, 2>>}
\* rand.Intn(10) + rand.Intn(10) + 2 of rollStats, for each characteristic:
\* the lowest sum for WS and the highest for the others
RollVectors == {[c \in CharNames |-> IF c = "WS" THEN 2 ELSE 20]}
\* rand.Intn(10) of the money, rand.Intn(20) + 1 of the hair and eye rolls,
\* rand.Intn(20) of the age, rand.Intn(40) of the height
MoneyDice == {9}
D20 == {20}
AgeDice == {19}
HeightDice == {39}

\* getRandomCareer: the career classes; the k-th career of a class is a
\* record of the class and k, and the string "class -> career" that
\* getRandomCareer returns is the same record with withClass set
Classes ==
    <<"Akademik", "Burzhua", "Pridvornyj", "Krestyanin", "Rejndzher",
      "Remeslennik", "Uchyonyj", "Voin">>
ClassOfRoll(roll) ==
    LET classIdx == (roll - 1) \div 12
    IN  Classes[(IF classIdx >= Len(Classes) THEN Len(Classes) - 1 ELSE classIdx) + 1]
getRandomCareer(data, roll, pick) ==
    [data EXCEPT !.Class = ClassOfRoll(roll),
                 !.Career = [class |-> ClassOfRoll(roll), pick |-> pick, withClass |-> FALSE],
                 !.CareerRank = "Rang 1",
                 !.Status = "Mednyj",
                 !.StatusLevel = 1]
CareerString(roll, pick) == [class |-> ClassOfRoll(roll), pick |-> pick, withClass |-> TRUE]

\* processCareer
processCareer(rawInput) ==
    LET choice == Atoi(TrimSpace(rawInput)) IN
    IF ~choice.ok
      THEN /\ Returns(<<>>, NoLLM, "write_number_1_3", CC_Idle, FALSE)
           /\ UNCHANGED <<ccState, ccData>>
    ELSE IF choice.val = 1
      THEN \E roll \in CareerRolls, pick \in CareerPicks :
             LET d1 == [ccData EXCEPT !.CareerMethod = "first_roll", !.CareerXP = 50]
                 d2 == getRandomCareer(d1, roll, pick)
                 d3 == [d2 EXCEPT !.Career = CareerString(roll, pick),
                                  !.TotalXP = d2.TotalXP + d2.CareerXP]
                 \* after the switch
                 d4 == [d3 EXCEPT !.TotalXP = d3.TotalXP + d3.CareerXP]
             IN  /\ ccData' = d4
                 /\ ccState' = CC_Stats
                 /\ Returns(<<roll, pick>>, NoLLM, "career", CC_Stats, TRUE)
    ELSE IF choice.val = 2
      THEN \E rolls \in ThreeRolls, picks \in ThreePicks :
             LET r1 == rolls[1]  r2 == rolls[2]  r3 == rolls[3]
                 k1 == picks[1]  k2 == picks[2]  k3 == picks[3]
                 d1 == [ccData EXCEPT !.CareerMethod = "three_rolls", !.CareerXP = 25]
                 d2 == getRandomCareer(getRandomCareer(getRandomCareer(d1, r1, k1), r2, k2), r3, k3)
             IN  /\ ccData' = [d2 EXCEPT !.Career = CareerString(r1, k1)]
                 /\ Returns(<<r1, k1, r2, k2, r3, k3>>, NoLLM,
                            "three_rolls_which", CC_Idle, TRUE)
                 /\ UNCHANGED ccState
    ELSE IF choice.val = 3
      THEN /\ ccData' = [ccData EXCEPT !.CareerMethod = "manual", !.CareerXP = 0]
           /\ ccState' = CC_Stats
           /\ Returns(<<>>, NoLLM, "career_list", CC_Stats, TRUE)
    ELSE /\ Returns(<<>>, NoLLM, "write_number_1_3", CC_Idle, FALSE)
         /\ UNCHANGED <<ccState, ccData>>

\* rollStats with the same bonus of 30 for every race
RaceBonusSame(race) == 30

\* rollStats: ten sums of two dice, each with the race's flat bonus
RaceBonus(race) ==
    CASE race = Chelovek -> 30 [] race = Poluroslik -> 20 [] race = Gnom -> 30
      [] race = VysshijElf -> 40 [] race = LesnojElf -> 30 [] OTHER -> 30
rollStats(data, baseStats) ==
    [data EXCEPT !.Chars = [c \in CharNames |-> baseStats[c] + RaceBonus(data.Race)]]

\* calculateSecondaryStats
FateResilience(race) ==
    CASE race = Chelovek -> <<2, 1>> [] race = Poluroslik -> <<0, 2>>
      [] race = Gnom -> <<0, 2>> [] OTHER -> <<0, 0>>
MovementOf(race) ==
    CASE race = Chelovek -> 4 [] race = Poluroslik -> 3 [] race = Gnom -> 3
      [] race = VysshijElf -> 5 [] race = LesnojElf -> 5 [] OTHER -> 4
calculateSecondaryStats(data, moneyDie) ==
    [data EXCEPT !.HP = (data.Chars["S"] \div 10) + 2 * (data.Chars["T"] \div 10)
                          + (data.Chars["WP"] \div 10),
                 !.Fate = FateResilience(data.Race)[1],
                 !.Resilience = FateResilience(data.Race)[2],
                 !.Fortune = FateResilience(data.Race)[1],
                 !.Resolve = FateResilience(data.Race)[2],
                 !.Movement = MovementOf(data.Race),
                 !.Money = moneyDie * 2 + data.StatusLevel * 2]

\* processStats
processStats(rawInput) ==
    LET choice == Atoi(TrimSpace(rawInput))
        d0 == [ccData EXCEPT !.StatsMethod = ""]
        rolled(method, xp) ==
            \E baseStats \in RollVectors, moneyDie \in MoneyDice :
              LET d1 == [d0 EXCEPT !.StatsMethod = method, !.XPFromStats = xp]
                  d2 == rollStats(d1, baseStats)
                  d3 == [d2 EXCEPT !.TotalXP = d2.TotalXP + d2.XPFromStats]
              IN  /\ ccData' = calculateSecondaryStats(d3, moneyDie)
                  /\ ccState' = CC_Skills
                  /\ Returns(<<baseStats["WS"], baseStats["BS"], moneyDie>>,
                             NoLLM, "characteristics", CC_Skills, TRUE)
    IN
    IF ~choice.ok
      THEN /\ Returns(<<>>, NoLLM, "write_number_1_3", CC_Idle, FALSE)
           /\ UNCHANGED <<ccState, ccData>>
    ELSE IF choice.val = 1 THEN rolled("random_no_swap", 50)
    ELSE IF choice.val = 2 THEN rolled("random_swap", 25)
    ELSE IF choice.val = 3
      THEN /\ ccData' = [d0 EXCEPT !.StatsMethod = "manual", !.XPFromStats = 0]
           /\ ccState' = CC_Skills
           /\ Returns(<<>>, NoLLM, "distribute_100", CC_Idle, TRUE)
    ELSE /\ ccData' = d0
         /\ Returns(<<>>, NoLLM, "write_number_1_3", CC_Idle, FALSE)
         /\ UNCHANGED ccState

\* processAppearance: the tables have 6 hair colours and 5 eye colours
NumHairColors == 6
NumEyeColors == 5
AgeBase(race) ==
    CASE race = Chelovek -> 18 [] race = Poluroslik -> 30 [] race = Gnom -> 40
      [] race = VysshijElf -> 100 [] race = LesnojElf -> 50 [] OTHER -> 18
\* the hair colour of a roll, the roll taken as it is
HairIndexUnclamped(hairRoll) == hairRoll
\* the position in hairColors, in eyeColors that a roll selects (from 1)
HairIndex(hairRoll) == IF hairRoll > NumHairColors THEN NumHairColors ELSE hairRoll
EyeIndex(eyeRoll) == IF eyeRoll > NumEyeColors THEN NumEyeColors ELSE eyeRoll
\* processAppearance, its two d20 drawn from the set d20
processAppearanceRolling(d20, rawInput) ==
    \E hairRoll \in d20, eyeRoll \in d20, ageDie \in AgeDice, heightDie \in HeightDice :
      /\ ccData' = [ccData EXCEPT
                      !.HairColor = HairIndex(hairRoll),
                      !.EyeColor = EyeIndex(eyeRoll),
                      !.Age = AgeBase(ccData.Race) + ageDie + 2,
                      !.Height = 150 + heightDie]
      /\ ccState' = CC_Personality
      /\ Returns(<<hairRoll, eyeRoll, ageDie, heightDie>>, NoLLM,
                 "appearance", CC_Personality, TRUE)
processAppearance(rawInput) == processAppearanceRolling(D20, rawInput)

\* strings.Split(s, sep), sep one character
RECURSIVE Split(_, _)
Split(s, sep) ==
    IF \E i \in 1..Len(s) : s[i] = sep
      THEN LET i == CHOOSE j \in 1..Len(s) : s[j] = sep /\ \A k \in 1..(j - 1) : s[k] # sep
           IN  <<SubSeq(s, 1, i - 1)>> \o Split(SubSeq(s, i + 1, Len(s)), sep)
      ELSE <<s>>

\* processPersonality
processPersonality(data, input) ==
    LET lines == Split(input, "\n")
        parts(line) == LET ps == Split(line, ",")
                       IN  [i \in 1..Len(ps) |-> TrimSpace(ps[i])]
    IN  [data EXCEPT !.Strengths = parts(lines[1]),
                     !.Weaknesses = IF Len(lines) >= 2 THEN parts(lines[2]) ELSE @,
                     !.Background = IF Len(lines) >= 3 THEN lines[3] ELSE @,
                     !.Motivation = "adventurer"]

\* ProcessInput of the creator, case CC_Save, starting the creation over
CC_SaveCaseStartingOver(input) ==
    /\ Returns(<<>>, NoLLM, "saved", CC_Idle, FALSE)
    /\ ccState' = CC_Save
    /\ ccData' = NewData

\* ProcessInput of the creator, case CC_Save
CC_SaveCase(input) ==
    /\ Returns(<<>>, NoLLM, "saved", CC_Idle, FALSE)
    /\ UNCHANGED <<ccState, ccData>>

\* the generate command of ProcessInput, but for inputs that are no question
IsGenerateCommandNoQuestion(input) ==
    LET lowerInput == ToLower(TrimSpace(input))
    IN  /\ ~IsLLMQuestion(input)
        /\ \/ lowerInput \in {SgeneriImya, SgeneriSam, ShengChengImya, GenerateName}
           \/ Contains(lowerInput, Sgeneri)

\* ProcessInput of the creator: what it takes for a command to generate the name
IsGenerateCommand(input) ==
    LET lowerInput == ToLower(TrimSpace(input))
    IN  \/ lowerInput \in {SgeneriImya, SgeneriSam, ShengChengImya, GenerateName}
        \/ Contains(lowerInput, Sgeneri)

\* ProcessInput of the creator: the generate command in the Name state, then
\* the question, then the handler of the state
CC_ProcessInput(input) ==
    /\ IF ccState = CC_Name /\ IsGenerateCommand(input)
         THEN generateName(input)
       ELSE IF IsLLMQuestion(input)
         THEN processLLMQuestion(input)
       ELSE CASE ccState = CC_Name -> processName(input)
              [] ccState = CC_Race -> processRace(input)
              [] ccState = CC_Career -> processCareer(input)
              [] ccState = CC_Stats -> processStats(input)
              [] ccState = CC_Skills ->
                   /\ ccState' = CC_Talents
                   /\ Returns(<<>>, NoLLM, "talents", CC_Idle, TRUE)
                   /\ UNCHANGED ccData
              [] ccState = CC_Talents ->
                   /\ ccState' = CC_Gear
                   /\ Returns(<<>>, NoLLM, "gear", CC_Idle, TRUE)
                   /\ UNCHANGED ccData
              [] ccState = CC_Gear ->
                   \* cc.State = CC_Appearance, which processAppearance overwrites
                   processAppearance(<<>>)
              [] ccState = CC_Appearance ->
                   /\ ccState' = CC_Personality
                   /\ Returns(<<>>, NoLLM, "", CC_Personality, TRUE)
                   /\ UNCHANGED ccData
              [] ccState = CC_Personality ->
                   /\ ccData' = processPersonality(ccData, input)
                   /\ ccState' = CC_Review
                   /\ Returns(<<>>, NoLLM, "", CC_Review, TRUE)
              [] ccState = CC_Review ->
                   IF ToLower(input) \in {Da, Yes} \/ input = One
                     THEN /\ ccState' = CC_Save
                          /\ Returns(<<>>, NoLLM, "saving", CC_Idle, TRUE)
                          /\ UNCHANGED ccData
                     ELSE /\ Returns(<<>>, NoLLM, "save_cancelled", CC_Idle, FALSE)
                          /\ UNCHANGED <<ccState, ccData>>
              [] ccState = CC_Save -> CC_SaveCase(input)
              [] OTHER ->
                   /\ Returns(<<>>, NoLLM, "", ccState, TRUE)
                   /\ UNCHANGED <<ccState, ccData>>
    /\ UNCHANGED ccLLM
    /\ UNCHANGED <<mgrVars, sessVars, now, op, pc, arg, res, updVars>>

\* ==================================================== the character sheets
\* A sheet, a response, a skill and a condition are strings: sequences of
\* characters, as in the creator.

\* strings.Index: the offset of the first occurrence of pat in s, -1 if none
Index(s, pat) ==
    IF Contains(s, pat)
      THEN CHOOSE i \in 0..(Len(s) - Len(pat)) :
               /\ SubSeq(s, i + 1, i + Len(pat)) = pat
               /\ \A j \in 0..(i - 1) : SubSeq(s, j + 1, j + Len(pat)) # pat
      ELSE 0 - 1

\* strings.HasSuffix
HasSuffix(s, pat) == Len(pat) <= Len(s) /\ SubSeq(s, Len(s) - Len(pat) + 1, Len(s)) = pat

\* s[i:], s[:i]
From(s, i) == SubSeq(s, i + 1, Len(s))
Upto(s, i) == SubSeq(s, 1, i)

\* strings.Fields: the maximal runs of non-space characters
RECURSIVE Fields(_)
Fields(s) ==
    LET t == TrimLeft(s, WhiteSpace)
    IN  IF t = <<>> THEN <<>>
        ELSE LET n == IF \E i \in 1..Len(t) : t[i] \in WhiteSpace
                        THEN (CHOOSE i \in 1..Len(t) :
                                 t[i] \in WhiteSpace /\ \A j \in 1..(i - 1) : t[j] \notin WhiteSpace) - 1
                        ELSE Len(t)
             IN  <<Upto(t, n)>> \o Fields(From(t, n))

\* fmt.Sprintf("%d", n)
DigitChar(d) ==
    CASE d = 0 -> "0" [] d = 1 -> "1" [] d = 2 -> "2" [] d = 3 -> "3" [] d = 4 -> "4"
      [] d = 5 -> "5" [] d = 6 -> "6" [] d = 7 -> "7" [] d = 8 -> "8" [] d = 9 -> "9"
RECURSIVE Itoa(_)
Itoa(n) ==
    IF n < 0 THEN <<"-">> \o Itoa(0 - n)
    ELSE IF n < 10 THEN <<DigitChar(n)>>
    ELSE Itoa(n \div 10) \o <<DigitChar(n % 10)>>

\* The verb %d of fmt.Sscanf: spaces are skipped, a newline or the end of the
\* input is an error; then an optional sign and a run of the characters
\* 0..9 and _, which strconv.ParseInt must accept (it refuses the _).
ScanfSpace == {" ", "\t", "\r"}
ScanD(s) ==
    LET t == TrimLeft(s, ScanfSpace)
        signed == t # <<>> /\ Head(t) \in {"+", "-"}
        u == IF signed THEN Tail(t) ELSE t
        n == IF \E i \in 1..Len(u) : u[i] \notin Digits \cup {"_"}
               THEN (CHOOSE i \in 1..Len(u) :
                        u[i] \notin Digits \cup {"_"}
                        /\ \A j \in 1..(i - 1) : u[j] \in Digits \cup {"_"}) - 1
               ELSE Len(u)
        tok == Upto(u, n)
    IN  IF n > 0 /\ \A i \in 1..n : tok[i] \in Digits
          THEN [ok |-> TRUE, val |-> IF signed /\ Head(t) = "-" THEN 0 - DecVal(tok) ELSE DecVal(tok)]
          ELSE [ok |-> FALSE, val |-> 0]

\* fmt.Sscanf(s, marker + " %d", &n): the marker's characters must be the
\* input's; the space of the format must meet a space of the input (the end
\* of the input passes too, a newline does not); then %d.
SscanfMarkerD(s, marker) ==
    LET rest == From(s, Len(marker))
    IN  IF HasPrefix(s, marker) /\ (rest = <<>> \/ Head(rest) \in ScanfSpace)
          THEN ScanD(rest)
          ELSE [ok |-> FALSE, val |-> 0]

\* fmt.Sscanf(line, "*%*HP: %d", &n), fmt.Sscanf(line, "%*[damage ]*%d", &n)
\* and their like: the formats are written as for C's scanf, where %* reads
\* without storing.  Go's fmt has no such thing: a '*' before the first verb
\* is a literal the input must start with, and the verb '*' is then applied
\* to the integer operand, for which it is a bad verb.  The call returns an
\* error for every input and stores nothing.
SscanfStarVerb(line) == [ok |-> FALSE, val |-> 0]

\* strings.NewReplacer(old1, new1, old2, new2, ...).Replace(s): from left to
\* right, at each offset the first pair whose old string starts there is
\* replaced, and the scan goes on behind it (the old strings are not empty).
RECURSIVE Replace(_, _)
Replace(s, pairs) ==
    IF s = <<>> THEN <<>>
    ELSE IF \E k \in 1..Len(pairs) : HasPrefix(s, pairs[k][1])
      THEN LET k == CHOOSE i \in 1..Len(pairs) :
                        HasPrefix(s, pairs[i][1]) /\ \A j \in 1..(i - 1) : ~HasPrefix(s, pairs[j][1])
           IN  pairs[k][2] \o Replace(From(s, Len(pairs[k][1])), pairs)
    ELSE <<Head(s)>> \o Replace(Tail(s), pairs)

\* ---------------------------------------------- the words of the sheets
HPMarker == <<"H", "P", ":">>
ZdorovyeMarker == <<"C:z", "c:d", "c:o", "c:r", "c:o", "c:v", "c:soft", "c:e", ":">>
XPMarker == <<"X", "P", ":">>
OpytMarker == <<"C:o", "c:p", "c:y", "c:t", ":">>
HPLabel == <<"H", "P", ":", " ">>
ZdorovyeLabel == <<"C:z", "c:d", "c:o", "c:r", "c:o", "c:v", "c:soft", "c:e", ":", " ">>
XPLabel == <<"X", "P", ":", " ">>
SkillsSection == <<"#", "#", " ", "C:n", "c:a", "c:v", "c:y", "c:k", "c:i">>
SkillItem == <<"\n", "-", " ">>
ConditionsHeader == <<"#", "#", " ", "C:s", "c:o", "c:s", "c:t", "c:o", "c:ya", "c:n", "c:i", "c:ya">>
ConditionsMarker == <<"#", "#", "#", " ", "C:p", "c:s", "c:i", "c:h", "c:o", "c:l", "c:o", "c:g", "c:i", "c:ch", "c:e", "c:s", "c:k", "c:i", "c:e", " ", "c:s", "c:o", "c:s", "c:t", "c:o", "c:ya", "c:n", "c:i", "c:ya">>
UpdatedOpen == <<"\n", "\n", "*", "(", "C:o", "c:b", "c:n", "c:o", "c:v", "c:l", "c:e", "c:n", "c:o", ":", " ">>
UpdatedClose == <<")", "*">>
Poluchil == <<"c:p", "c:o", "c:l", "c:u", "c:ch", "c:i", "c:l">>
TookDamage == <<"t", "o", "o", "k", " ", "d", "a", "m", "a", "g", "e">>
Vylechen == <<"c:v", "c:y", "c:l", "c:e", "c:ch", "c:e", "c:n">>
Healed == <<"h", "e", "a", "l", "e", "d">>
PoluchilOpyt == <<"c:p", "c:o", "c:l", "c:u", "c:ch", "c:i", "c:l", " ", "c:o", "c:p", "c:y", "c:t">>
GainedXP == <<"g", "a", "i", "n", "e", "d", " ", "x", "p">>
Navyk == <<"c:n", "c:a", "c:v", "c:y", "c:k">>
Skill == <<"s", "k", "i", "l", "l">>
Ranenie == <<"c:r", "c:a", "c:n", "c:e", "c:n", "c:i", "c:e">>
Wound == <<"w", "o", "u", "n", "d">>
Krovotechenie == <<"c:k", "c:r", "c:o", "c:v", "c:o", "c:t", "c:e", "c:ch", "c:e", "c:n", "c:i", "c:e">>
Bleeding == <<"b", "l", "e", "e", "d", "i", "n", "g">>
Krit == <<"c:k", "c:r", "c:i", "c:t">>
Critical == <<"c", "r", "i", "t", "i", "c", "a", "l">>
Wounded == <<"W", "o", "u", "n", "d", "e", "d">>
BleedingCondition == <<"B", "l", "e", "e", "d", "i", "n", "g">>
CriticalWound == <<"C", "r", "i", "t", "i", "c", "a", "l", " ", "W", "o", "u", "n", "d">>
\* time.Now().Format("15:04:05")
Clock == <<"1", "5", ":", "0", "4", ":", "0", "5">>

\* CharacterUpdate; StatsChanges is a sequence of <<stat, change>> pairs
EmptyUpdate ==
    [HPChange |-> 0, MaxHPChange |-> 0, XPChange |-> 0, StatsChanges |-> <<>>,
     SkillsAdded |-> <<>>, Conditions |-> <<>>]

\* ParseCharacterStats, the fields ApplyCharacterUpdate reads: CurrentHP, MaxHP
\* and XP start at 0 and are set from the last line whose scan succeeds.
RECURSIVE LastScanned(_, _, _)
LastScanned(lines, markers, sofar) ==
    IF lines = <<>> THEN sofar
    ELSE LET line == Head(lines)
             r == SscanfStarVerb(line)
         IN  LastScanned(Tail(lines), markers,
                         IF (\E m \in markers : Contains(line, m)) /\ r.ok THEN r.val ELSE sofar)
ParseCharacterStats(sheet) ==
    LET lines == Split(sheet, "\n")
        hp == LastScanned(lines, {HPMarker, ZdorovyeMarker}, 0)
    IN  [CurrentHP |-> hp, MaxHP |-> hp, XP |-> LastScanned(lines, {XPMarker, OpytMarker}, 0)]

\* applyHPChange
applyHPChange(sheet, change, stats) ==
    LET sum == stats.CurrentHP + change
        newCurrentHP == IF sum < 0 THEN 0
                        ELSE IF stats.MaxHP > 0 /\ sum > stats.MaxHP THEN stats.MaxHP
                        ELSE sum
    IN  Replace(sheet, << <<HPLabel \o Itoa(stats.CurrentHP), HPLabel \o Itoa(newCurrentHP)>>,
                          <<ZdorovyeLabel \o Itoa(stats.CurrentHP),
                            ZdorovyeLabel \o Itoa(newCurrentHP)>> >>)

\* applyMaxHPChange: a placeholder
applyMaxHPChange(sheet, change) == sheet

\* applyXPChange
applyXPChange(sheet, change) ==
    LET idx == Index(sheet, XPMarker)
        cur == IF idx >= 0 THEN SscanfMarkerD(From(sheet, idx), XPMarker)
               ELSE [ok |-> FALSE, val |-> 0]
    IN  IF cur.ok
          THEN Replace(sheet, << <<XPLabel \o Itoa(cur.val), XPLabel \o Itoa(cur.val + change)>> >>)
          ELSE sheet

\* applyStatChange
applyStatChange(sheet, stat, change) ==
    LET statMarker == stat \o <<":">>
        idx == Index(sheet, statMarker)
        cur == IF idx >= 0 THEN SscanfMarkerD(From(sheet, idx), statMarker)
               ELSE [ok |-> FALSE, val |-> 0]
        sum == cur.val + change
        newValue == IF sum > 100 THEN 100 ELSE IF sum < 0 THEN 0 ELSE sum
    IN  IF cur.ok
          THEN Replace(sheet, << <<stat \o <<" ">> \o Itoa(cur.val),
                                   stat \o <<" ">> \o Itoa(newValue)>> >>)
          ELSE sheet

\* addSkillToSheet
addSkillToSheet(sheet, skill) ==
    LET idx == Index(sheet, SkillsSection)
        insertPoint == idx + Len(SkillsSection)
    IN  IF idx >= 0
          THEN Upto(sheet, insertPoint) \o SkillItem \o skill \o From(sheet, insertPoint)
          ELSE sheet

\* addConditionToSheet
addConditionToSheet(sheet, condition) ==
    LET idx == Index(sheet, ConditionsHeader)
        markerIdx == Index(sheet, ConditionsMarker)
        insertPoint == IF idx >= 0
                         THEN IF markerIdx > idx THEN markerIdx ELSE idx + Len(ConditionsHeader)
                         ELSE Len(sheet)
        newCondition ==
            IF idx >= 0
              THEN IF markerIdx > idx THEN SkillItem \o condition
                   ELSE <<"\n", "\n">> \o ConditionsMarker \o SkillItem \o condition
              ELSE <<"\n", "\n">> \o ConditionsHeader \o <<"\n", "\n">> \o ConditionsMarker
                     \o SkillItem \o condition
    IN  Upto(sheet, insertPoint) \o newCondition \o From(sheet, insertPoint)

\* The loops of ApplyCharacterUpdate over StatsChanges, SkillsAdded, Conditions
RECURSIVE ApplyStats(_, _)
ApplyStats(sheet, changes) ==
    IF changes = <<>> THEN sheet
    ELSE ApplyStats(applyStatChange(sheet, Head(changes)[1], Head(changes)[2]), Tail(changes))
RECURSIVE AddSkills(_, _)
AddSkills(sheet, skills) ==
    IF skills = <<>> THEN sheet ELSE AddSkills(addSkillToSheet(sheet, Head(skills)), Tail(skills))
RECURSIVE AddConditions(_, _)
AddConditions(sheet, conds) ==
    IF conds = <<>> THEN sheet
    ELSE AddConditions(addConditionToSheet(sheet, Head(conds)), Tail(conds))

\* ApplyCharacterUpdate, the sheet it returns
ApplyCharacterUpdate(sheet, update) ==
    LET stats == ParseCharacterStats(sheet)
        s1 == IF update.HPChange # 0 THEN applyHPChange(sheet, update.HPChange, stats) ELSE sheet
        s2 == IF update.MaxHPChange # 0 THEN applyMaxHPChange(s1, update.MaxHPChange) ELSE s1
        s3 == IF update.XPChange # 0 THEN applyXPChange(s2, update.XPChange) ELSE s2
        s4 == ApplyStats(s3, update.StatsChanges)
        s5 == AddSkills(s4, update.SkillsAdded)
        s6 == AddConditions(s5, update.Conditions)
    IN  s6 \o UpdatedOpen \o Clock \o UpdatedClose

\* extractSkillFromLine: the first field that ends in neither ":" nor "-" and
\* is longer than two bytes; "" if there is none
RECURSIVE FirstSkillPart(_)
FirstSkillPart(parts) ==
    IF parts = <<>> THEN <<>>
    ELSE IF HasSuffix(Head(parts), <<":">>) \/ HasSuffix(Head(parts), <<"-">>)
      THEN FirstSkillPart(Tail(parts))
    ELSE IF ByteLen(Head(parts)) > 2 THEN TrimSpace(Head(parts))
    ELSE FirstSkillPart(Tail(parts))
extractSkillFromLine(line) == FirstSkillPart(Fields(line))

\* ParseCharacterUpdateFromResponse, the body of its loop: what one line adds
\* to the update
ParseLine(update, line) ==
    LET lower == ToLower(TrimSpace(line))
        damage == SscanfStarVerb(line)
        healing == SscanfStarVerb(line)
        xp == SscanfStarVerb(line)
        afterDamage ==
            IF (Contains(lower, Poluchil) \/ Contains(lower, TookDamage)) /\ damage.ok
              THEN update.HPChange - damage.val ELSE update.HPChange
        afterHealing ==
            IF (Contains(lower, Vylechen) \/ Contains(lower, Healed)) /\ healing.ok
              THEN afterDamage + healing.val ELSE afterDamage
        afterXP ==
            IF (Contains(lower, PoluchilOpyt) \/ Contains(lower, GainedXP)) /\ xp.ok
              THEN update.XPChange + xp.val ELSE update.XPChange
        skillName == extractSkillFromLine(line)
        skills ==
            IF (Contains(lower, Navyk) \/ Contains(lower, Skill)) /\ skillName # <<>>
              THEN <<skillName>> ELSE <<>>
        wounded ==
            IF Contains(lower, Ranenie) \/ Contains(lower, Wound) THEN <<Wounded>> ELSE <<>>
        bleeding ==
            IF Contains(lower, Krovotechenie) \/ Contains(lower, Bleeding)
              THEN <<BleedingCondition>> ELSE <<>>
        critical ==
            IF Contains(lower, Krit) \/ Contains(lower, Critical) THEN <<CriticalWound>> ELSE <<>>
    IN  [update EXCEPT !.HPChange = afterHealing,
                       !.XPChange = afterXP,
                       !.SkillsAdded = @ \o skills,
                       !.Conditions = @ \o wounded \o bleeding \o critical]

RECURSIVE ParseLines(_, _)
ParseLines(update, lines) ==
    IF lines = <<>> THEN update ELSE ParseLines(ParseLine(update, Head(lines)), Tail(lines))

\* A parser that reports an error when it finds nothing to update.
ParseCharacterUpdateFromResponseFailing(response) ==
    LET update == ParseLines(EmptyUpdate, Split(response, "\n"))
    IN  [playerID |-> <<>>, update |-> update,
         err |-> IF update = EmptyUpdate THEN "no update found" ELSE "nil"]
\* ParseCharacterUpdateFromResponse: (playerID, update, err)
ParseCharacterUpdateFromResponse(response) ==
    [playerID |-> <<>>, update |-> ParseLines(EmptyUpdate, Split(response, "\n")), err |-> "nil"]

\* The sheets, the responses and the updates the functions are tried on.
Dodge == <<"D", "o", "d", "g", "e">>
WS == <<"W", "S">>
Sheet_HP10 == <<"H", "P", ":", " ", "1", "0", "\n", "X", "P", ":", " ", "1", "0", "0">>
Sheet_HP0 == <<"H", "P", ":", " ", "0", "\n", "X", "P", ":", " ", "0">>
Sheet_WS == <<"W", "S", ":", " ", "4", "0", "\n", "W", "S", " ", "4", "0", "\n", "H", "P", ":", " ", "0">>
Sheet_Zdorovye == <<"C:z", "c:d", "c:o", "c:r", "c:o", "c:v", "c:soft", "c:e", ":", " ", "0", "\n", "#", "#", " ", "C:n", "c:a", "c:v", "c:y", "c:k", "c:i", "\n", "#", "#", " ", "C:s", "c:o", "c:s", "c:t", "c:o", "c:ya", "c:n", "c:i", "c:ya">>
Sheet_Generated == <<"#", " ", "I", "v", "a", "n", "\n", "*", "*", "C:r", "c:a", "c:n", "c:y", ":", "*", "*", " ", "1", "2">>
Resp_Tavern == <<"Y", "o", "u", " ", "e", "n", "t", "e", "r", " ", "t", "h", "e", " ", "t", "a", "v", "e", "r", "n", ".">>
Resp_Empty == <<>>
Resp_Damage == <<"T", "h", "e", " ", "o", "r", "c", " ", "h", "i", "t", "s", ".", "\n", "I", "v", "a", "n", " ", "t", "o", "o", "k", " ", "d", "a", "m", "a", "g", "e", " ", "5">>
Resp_Healed == <<"I", "v", "a", "n", " ", "i", "s", " ", "h", "e", "a", "l", "e", "d", " ", "3">>
Resp_GainedXP == <<"I", "v", "a", "n", " ", "g", "a", "i", "n", "e", "d", " ", "x", "p", " ", "5", "0">>
Resp_PoluchilOpyt == <<"C:i", "c:v", "c:a", "c:n", " ", "c:p", "c:o", "c:l", "c:u", "c:ch", "c:i", "c:l", " ", "c:o", "c:p", "c:y", "c:t", " ", "1", "0">>
Resp_Skill == <<"N", "e", "w", " ", "s", "k", "i", "l", "l", ":", " ", "D", "o", "d", "g", "e">>
Resp_Wound == <<"A", " ", "c", "r", "i", "t", "i", "c", "a", "l", " ", "w", "o", "u", "n", "d", ",", " ", "b", "l", "e", "e", "d", "i", "n", "g">>
Sheets == {Sheet_HP10, Sheet_HP0, Sheet_WS, Sheet_Zdorovye, Sheet_Generated}
Responses ==
    {Resp_Tavern, Resp_Empty, Resp_Damage, Resp_Healed, Resp_GainedXP, Resp_PoluchilOpyt,
     Resp_Skill, Resp_Wound}
HPChanges == {0 - 15, 0, 5}
XPChanges == {0 - 50, 0, 10}
Updates ==
    [HPChange : HPChanges, MaxHPChange : {0, 2}, XPChange : XPChanges,
     StatsChanges : {<<>>, << <<WS, 5>> >>}, SkillsAdded : {<<>>, <<Dodge>>},
     Conditions : {<<>>, <<Wounded>>}]

\* Nothing has been parsed, nothing has been applied.
NoParse == [called |-> FALSE, playerID |-> <<>>, update |-> EmptyUpdate, err |-> "nil"]
NoSheet == [called |-> FALSE, by |-> "nobody", sheet |-> <<>>]
NoUpdateCall ==
    /\ updSheet = <<>>
    /\ updResponse = <<>>
    /\ updParsed = NoParse
    /\ updUpdate = EmptyUpdate
    /\ updOut = NoSheet

\* ------------------------------------------------------------------ the bot
\* An update: a command with its arguments or a text message, of one chat.
NoUpdate == [kind |-> "none", text |-> <<>>]
\* What a HandleUpdate call did: where the update went (route), whether the
\* creator was deleted from the map, and how SaveToFile ended.
NoHandled == [kind |-> "none", route |-> "none", deleted |-> FALSE, save |-> "none"]
NoFile == [written |-> FALSE, name |-> <<>>]
NoBot ==
    /\ botPc = "select"
    /\ botUpdate = NoUpdate
    /\ botInFlight = 0
    /\ creators = {}
    /\ charFile = NoFile
    /\ botLast = NoHandled

\* ------------------------------------------------------------ the streamer
\* The jobs callers hand to Streamer.Stream, and the chunks splitText may cut
\* a job's text into: one for a text of at most 4096 bytes, and one more for
\* about every 4096 bytes beyond.
NumJobs == 3
Jobs == 1..NumJobs
MaxChunks == 3
QueueCap == 100
ResultChanCap == 1
NoJob == [pc |-> "none", chunks |-> 0, resultChan |-> <<>>, result |-> "none"]
AtQueue == [pc |-> "select", job |-> 0, i |-> 0, err |-> "nil"]
\* NewStreamer and Start: an empty queue, the worker at its select
NewStreamer ==
    /\ strQueue = <<>>
    /\ strJobs = [j \in Jobs |-> NoJob]
    /\ strWorker = AtQueue
    /\ strSent = <<>>

\* ---------------------------------------------------- the provider manager
ProviderNames == {"openai", "custom", "minimax"}
Configs == [Name : {"openai", "minimax", "bogus"}, APIKey : {"", "k1"}]
InitialConfig == [Name |-> "openai", APIKey |-> "k0"]
NilProvider == [kind |-> "nil", config |-> [Name |-> "", APIKey |-> ""]]
\* NewProviderFromConfig: the provider of the configured name, which keeps the
\* configuration it was made from; an unknown name or an empty key is an error.
NewProviderFromConfig(cfg) ==
    IF cfg.Name \in ProviderNames /\ cfg.APIKey # ""
      THEN [provider |-> [kind |-> cfg.Name, config |-> cfg], err |-> "nil"]
      ELSE [provider |-> NilProvider, err |-> "failed"]

NoPMCall == [pc |-> "idle", newConfig |-> InitialConfig, provider |-> NilProvider,
             err |-> "none",
             before |-> [provider |-> NilProvider, config |-> InitialConfig],
             seen |-> [provider |-> NilProvider, config |-> InitialConfig]]
\* NewProviderManager(cfg), with a cfg it accepts
NewProviderManager ==
    /\ pmProvider = NewProviderFromConfig(InitialConfig).provider
    /\ pmConfig = InitialConfig
    /\ pmMu = None
    /\ pmCall = [p \in Procs |-> NoPMCall]

\* ============================================================ the sessions
\* NewSession: State Idle, no characters, LastActivity = StartTime = now, a live
\* context.  Every session object exists from the start; the registry is empty.
InitWith(providers) ==
    /\ sessions = [c \in Chats |-> None]
    /\ smW = None
    /\ smR = {}
    /\ registered = [c \in Chats |-> None]
    /\ State = [s \in Sessions |-> StateIdle]
    /\ LastActivity = [s \in Sessions |-> 0]
    /\ Characters = [s \in Sessions |-> [pl \in Players |-> None]]
    /\ cancelled = [s \in Sessions |-> FALSE]
    /\ muW = [s \in Sessions |-> None]
    /\ llmProvider \in providers
    /\ wd = [s \in Sessions |-> "off"]
    /\ now = 0
    /\ op = [p \in Procs |-> "idle"]
    /\ pc = [p \in Procs |-> "idle"]
    /\ arg = [p \in Procs |-> NoArg]
    /\ res = [p \in Procs |-> NoRes]
    /\ NewCharacterCreator({FALSE})
    /\ NoUpdateCall
    /\ NoBot
    /\ NewStreamer
    /\ NewProviderManager

\* The session under test has a provider that answers or one that fails.
Init ==
    InitWith({f \in [Sessions -> Providers] :
                 \A s \in Sessions \ SessionUnderTest : f[s] = "ok"})

\* time passes
AdvanceClock ==
    /\ now + ClockStep <= MaxNow
    /\ now' = now + ClockStep
    /\ UNCHANGED <<mgrVars, sessVars, op, pc, arg, res>>
    /\ UNCHANGED <<ccVars, updVars, botVars, strVars, pmVars>>

\* ------------------------------------------------------- calls and returns
FirstPc(o) ==
    CASE o = "AddSession" -> "sm_lock"
      [] o = "GetSession" -> "sm_rlock"
      [] o = "RemoveSession" -> "sm_lock"
      [] o = "ProcessPlayerMessage" -> "sm_rlock"
      [] o = "Start" -> "lock"
      [] o = "Stop" -> "cancel"
      [] o = "AddCharacter" -> "lock"
      [] o = "ProcessInput" -> "pi_lock"
      [] o = "StreamResponse" -> "sr_lock"

ManagerOps == {"AddSession", "GetSession", "RemoveSession", "ProcessPlayerMessage"}
SessionOps == {"Start", "Stop", "AddCharacter", "ProcessInput", "StreamResponse"}

\* A transport goroutine begins operation o, one of ops, on a chat and a
\* session of its choice among ss.  As in StartCommand, Start is called once
\* per session object, right after NewSession, and the session is handed to
\* AddSession, and so to every other caller, only when Start has returned.
Call(p, ops, ss) ==
    /\ op[p] = "idle"
    /\ \E o \in ops, c \in Chats, s \in ss, pl \in Players :
        /\ o \in ManagerOps \ {"AddSession"} => \A s2 \in ss : s <= s2
        /\ o \in SessionOps => c = 1
        /\ o # "AddCharacter" => pl = 1
        /\ o \in (SessionOps \ {"Start"}) \cup {"AddSession"} => wd[s] # "off"
        /\ o = "Start" =>
              /\ wd[s] = "off"
              /\ \A q \in Procs : ~(op[q] = "Start" /\ arg[q].sess = s)
        /\ op' = [op EXCEPT ![p] = o]
        /\ pc' = [pc EXCEPT ![p] = FirstPc(o)]
        /\ arg' = [arg EXCEPT ![p] =
                     [chat |-> IF o \in ManagerOps THEN c ELSE None,
                      sess |-> IF o \in SessionOps \cup {"AddSession"} THEN s ELSE None,
                      player |-> IF o = "AddCharacter" THEN pl ELSE None]]
        /\ res' = [res EXCEPT ![p] = NoRes]
    /\ UNCHANGED <<mgrVars, sessVars, now>>
    /\ UNCHANGED <<ccVars, updVars, botVars, strVars, pmVars>>

\* The operation has returned; its caller takes the result and is free again.
Return(p) ==
    /\ pc[p] = "ret"
    /\ op' = [op EXCEPT ![p] = "idle"]
    /\ pc' = [pc EXCEPT ![p] = "idle"]
    /\ arg' = [arg EXCEPT ![p] = NoArg]
    /\ res' = [res EXCEPT ![p] = NoRes]
    /\ UNCHANGED <<mgrVars, sessVars, now>>
    /\ UNCHANGED <<ccVars, updVars, botVars, strVars, pmVars>>

Ret(p, r) ==
    /\ pc' = [pc EXCEPT ![p] = "ret"]
    /\ res' = [res EXCEPT ![p] = r]

Goto(p, l) == pc' = [pc EXCEPT ![p] = l]

\* --------------------------------------------------------- SessionManager
\* AddSession, RemoveSession: sm.mu.Lock() up to its announcement
SM_LockAnnounce(p) ==
    /\ op[p] \in {"AddSession", "RemoveSession"} /\ pc[p] = "sm_lock"
    /\ smW = None
    /\ smW' = p
    /\ Goto(p, "sm_wait")
    /\ UNCHANGED <<sessions, smR, registered, sessVars, now, op, arg, res>>
    /\ UNCHANGED <<ccVars, updVars, botVars, strVars, pmVars>>

\* AddSession: sm.mu.Lock() returns; sm.sessions[chatID] = session
AddSession_Lock(p) ==
    /\ op[p] = "AddSession" /\ pc[p] = "sm_wait"
    /\ SMCanLock(p)
    /\ sessions' = [sessions EXCEPT ![arg[p].chat] = arg[p].sess]
    /\ registered' = [registered EXCEPT ![arg[p].chat] = arg[p].sess]
    /\ Goto(p, "sm_unlock")
    /\ UNCHANGED <<smW, smR, sessVars, now, op, arg, res>>
    /\ UNCHANGED <<ccVars, updVars, botVars, strVars, pmVars>>

\* RemoveSession: sm.mu.Lock() returns; delete(sm.sessions, chatID)
RemoveSession_Lock(p) ==
    /\ op[p] = "RemoveSession" /\ pc[p] = "sm_wait"
    /\ SMCanLock(p)
    /\ sessions' = [sessions EXCEPT ![arg[p].chat] = None]
    /\ registered' = [registered EXCEPT ![arg[p].chat] = None]
    /\ Goto(p, "sm_unlock")
    /\ UNCHANGED <<smW, smR, sessVars, now, op, arg, res>>
    /\ UNCHANGED <<ccVars, updVars, botVars, strVars, pmVars>>

\* the deferred sm.mu.Unlock() of AddSession and RemoveSession, and the return
SM_Unlock(p) ==
    /\ op[p] \in {"AddSession", "RemoveSession"} /\ pc[p] = "sm_unlock"
    /\ smW' = None
    /\ Ret(p, [err |-> ErrNil, id |-> None, out |-> None])
    /\ UNCHANGED <<sessions, smR, registered, sessVars, now, op, arg>>
    /\ UNCHANGED <<ccVars, updVars, botVars, strVars, pmVars>>

\* GetSession: sm.mu.RLock(); session, exists := sm.sessions[chatID]
\* (the session read is kept in arg.sess, None standing for exists = false)
GetSession_RLock(p) ==
    /\ op[p] \in {"GetSession", "ProcessPlayerMessage"} /\ pc[p] = "sm_rlock"
    /\ SMCanRLock
    /\ smR' = smR \cup {p}
    /\ arg' = [arg EXCEPT ![p].sess = sessions[arg[p].chat]]
    /\ Goto(p, "sm_runlock")
    /\ UNCHANGED <<sessions, smW, registered, sessVars, now, op, res>>
    /\ UNCHANGED <<ccVars, updVars, botVars, strVars, pmVars>>

\* GetSession: the deferred sm.mu.RUnlock(); return session, exists
GetSession_RUnlock(p) ==
    /\ op[p] = "GetSession" /\ pc[p] = "sm_runlock"
    /\ smR' = smR \ {p}
    /\ Ret(p, [err |-> ErrNil, id |-> None, out |-> arg[p].sess])
    /\ UNCHANGED <<sessions, smW, registered, sessVars, now, op, arg>>
    /\ UNCHANGED <<ccVars, updVars, botVars, strVars, pmVars>>

\* PPM_GetReturned with the registry's read lock kept until ProcessPlayerMessage
\* itself returns
PPM_GetReturnedLocked(p) ==
    /\ op[p] = "ProcessPlayerMessage" /\ pc[p] = "sm_runlock"
    /\ IF arg[p].sess = None
         THEN /\ Ret(p, [err |-> ErrNoSession, id |-> arg[p].chat, out |-> None])
              /\ smR' = smR \ {p}
         ELSE Goto(p, "ppm_isactive") /\ UNCHANGED <<res, smR>>
    /\ UNCHANGED <<sessions, smW, registered, sessVars, now, op, arg>>
    /\ UNCHANGED <<ccVars, updVars, botVars, strVars, pmVars>>

\* PPM_GetReturned with the session looked up, not the chat id, in the error
PPM_GetReturnedWrongId(p) ==
    /\ op[p] = "ProcessPlayerMessage" /\ pc[p] = "sm_runlock"
    /\ smR' = smR \ {p}
    /\ IF arg[p].sess = None
         THEN Ret(p, [err |-> ErrNoSession, id |-> arg[p].sess, out |-> None])
         ELSE Goto(p, "ppm_isactive") /\ UNCHANGED res
    /\ UNCHANGED <<sessions, smW, registered, sessVars, now, op, arg>>
    /\ UNCHANGED <<ccVars, updVars, botVars, strVars, pmVars>>

\* ProcessPlayerMessage after its GetSession returned: no session, or go on
\* to session.IsActive()
PPM_GetReturned(p) ==
    /\ op[p] = "ProcessPlayerMessage" /\ pc[p] = "sm_runlock"
    /\ smR' = smR \ {p}
    /\ IF arg[p].sess = None
         THEN Ret(p, [err |-> ErrNoSession, id |-> arg[p].chat, out |-> None])
         ELSE Goto(p, "ppm_isactive") /\ UNCHANGED res
    /\ UNCHANGED <<sessions, smW, registered, sessVars, now, op, arg>>
    /\ UNCHANGED <<ccVars, updVars, botVars, strVars, pmVars>>

\* ProcessPlayerMessage: if !session.IsActive() (RLock, read State, RUnlock):
\* the "not active" error, else on to session.ProcessInput
PPM_IsActive(p) ==
    /\ op[p] = "ProcessPlayerMessage" /\ pc[p] = "ppm_isactive"
    /\ CanRLock(arg[p].sess)
    /\ IF State[arg[p].sess] # StateActive
         THEN Ret(p, [err |-> ErrNotActive, id |-> arg[p].sess, out |-> None])
         ELSE Goto(p, "pi_lock") /\ UNCHANGED res
    /\ UNCHANGED <<mgrVars, sessVars, now, op, arg>>
    /\ UNCHANGED <<ccVars, updVars, botVars, strVars, pmVars>>

\* ----------------------------------------------------------------- Session
\* Start: Lock; State = Active; LastActivity = now; go checkInputsLoop; Unlock
Start(p) ==
    /\ op[p] = "Start" /\ pc[p] = "lock"
    /\ CanLock(arg[p].sess)
    /\ State' = [State EXCEPT ![arg[p].sess] = StateActive]
    /\ LastActivity' = [LastActivity EXCEPT ![arg[p].sess] = now]
    /\ wd' = [wd EXCEPT ![arg[p].sess] = "select"]
    /\ Ret(p, [err |-> ErrNil, id |-> None, out |-> None])
    /\ UNCHANGED <<mgrVars, Characters, cancelled, muW, llmProvider, now, op, arg>>
    /\ UNCHANGED <<ccVars, updVars, botVars, strVars, pmVars>>

\* Stop: s.cancel(), before the mutex is asked for
Stop_Cancel(p) ==
    /\ op[p] = "Stop" /\ pc[p] = "cancel"
    /\ cancelled' = [cancelled EXCEPT ![arg[p].sess] = TRUE]
    /\ Goto(p, "lock")
    /\ UNCHANGED <<mgrVars, State, LastActivity, Characters, muW, llmProvider, wd,
                   now, op, arg, res>>
    /\ UNCHANGED <<ccVars, updVars, botVars, strVars, pmVars>>

\* Stop: s.mu.Lock(); s.State = StateIdle; s.mu.Unlock()
Stop_Lock(p) ==
    /\ op[p] = "Stop" /\ pc[p] = "lock"
    /\ CanLock(arg[p].sess)
    /\ State' = [State EXCEPT ![arg[p].sess] = StateIdle]
    /\ Ret(p, [err |-> ErrNil, id |-> None, out |-> None])
    /\ UNCHANGED <<mgrVars, LastActivity, Characters, cancelled, muW, llmProvider,
                   wd, now, op, arg>>
    /\ UNCHANGED <<ccVars, updVars, botVars, strVars, pmVars>>

\* AddCharacter: Lock; s.Characters[playerID] = char; Unlock (a fresh sheet)
AddCharacter(p) ==
    /\ op[p] = "AddCharacter" /\ pc[p] = "lock"
    /\ CanLock(arg[p].sess)
    /\ Characters' = [Characters EXCEPT ![arg[p].sess][arg[p].player] = 1]
    /\ Ret(p, [err |-> ErrNil, id |-> None, out |-> None])
    /\ UNCHANGED <<mgrVars, State, LastActivity, cancelled, muW, llmProvider, wd,
                   now, op, arg>>
    /\ UNCHANGED <<ccVars, updVars, botVars, strVars, pmVars>>

\* ApplyCharacterUpdate on every character of the session: each sheet changes
\* (at least the "updated at" footer is appended).
\* ParseCharacterUpdateFromResponse never returns a nil update.
ApplyToAll(chars) ==
    [pl \in Players |-> IF chars[pl] = None THEN None ELSE chars[pl] + 1]

\* PI_Acquire with the Lock forgotten
PI_AcquireNoLock(p) == muW' = muW

\* ProcessInput: s.mu.Lock(); defer s.mu.Unlock()
PI_Acquire(p) ==
    /\ CanLock(arg[p].sess)
    /\ muW' = [muW EXCEPT ![arg[p].sess] = p]

\* UpdateActivity: s.mu.Lock(); s.LastActivity = time.Now(); s.mu.Unlock()
\* It returns only if it gets the mutex, and then leaves it free.
UpdateActivity(s) ==
    /\ CanLock(s)
    /\ LastActivity' = [LastActivity EXCEPT ![s] = now]

\* GenerateRequest / StreamRequest under s.ctx fails when the context is
\* cancelled or the provider fails.
LLMFails(s) == cancelled[s] \/ llmProvider[s] = "fail"

\* ProcessInput, from its Lock to its return, one suspension point after the
\* other: the Lock, UpdateActivity's Lock, the RLocks of the two
\* GetAllCharacterSheets calls, the LLM round trip.
ProcessInput(p) ==
    /\ op[p] \in {"ProcessInput", "ProcessPlayerMessage"}
    /\ LET s == arg[p].sess IN
       CASE pc[p] = "pi_lock" ->
              /\ PI_Acquire(p)
              /\ Goto(p, "pi_ua")
              /\ UNCHANGED <<State, LastActivity, Characters, res>>
         [] pc[p] = "pi_ua" ->
              /\ UpdateActivity(s)
              /\ State' = [State EXCEPT ![s] = StateProcessing]
              /\ Goto(p, "pi_sheets1")
              /\ UNCHANGED <<Characters, muW, res>>
         [] pc[p] = "pi_sheets1" ->
              /\ CanRLock(s)
              /\ Goto(p, "pi_sheets2")
              /\ UNCHANGED <<State, LastActivity, Characters, muW, res>>
         [] pc[p] = "pi_sheets2" ->
              /\ CanRLock(s)
              /\ Goto(p, "pi_llm")
              /\ UNCHANGED <<State, LastActivity, Characters, muW, res>>
         [] pc[p] = "pi_llm" ->
              /\ State' = [State EXCEPT ![s] = StateActive]
              /\ muW' = [muW EXCEPT ![s] = None]
              /\ IF LLMFails(s)
                   THEN /\ Ret(p, [err |-> ErrGenerate, id |-> None, out |-> None])
                        /\ UNCHANGED Characters
                   ELSE /\ Characters' = [Characters EXCEPT ![s] = ApplyToAll(@)]
                        /\ Ret(p, [err |-> ErrNil, id |-> None, out |-> "response"])
              /\ UNCHANGED LastActivity
         [] OTHER -> FALSE
    /\ UNCHANGED <<mgrVars, cancelled, llmProvider, wd, now, op, arg>>
    /\ UNCHANGED <<ccVars, updVars, botVars, strVars, pmVars>>

\* StreamResponse: Lock; UpdateActivity; State = Processing; Unlock; the sheets;
\* StreamRequest; on its error Lock, State = Active, Unlock.
StreamResponse(p) ==
    /\ op[p] = "StreamResponse"
    /\ LET s == arg[p].sess IN
       CASE pc[p] = "sr_lock" ->
              /\ CanLock(s)
              /\ muW' = [muW EXCEPT ![s] = p]
              /\ Goto(p, "sr_ua")
              /\ UNCHANGED <<State, LastActivity, res>>
         [] pc[p] = "sr_ua" ->
              /\ UpdateActivity(s)
              /\ State' = [State EXCEPT ![s] = StateProcessing]
              /\ muW' = [muW EXCEPT ![s] = None]
              /\ Goto(p, "sr_sheets")
              /\ UNCHANGED res
         [] pc[p] = "sr_sheets" ->
              /\ CanRLock(s)
              /\ Goto(p, "sr_llm")
              /\ UNCHANGED <<State, LastActivity, muW, res>>
         [] pc[p] = "sr_llm" ->
              /\ IF LLMFails(s)
                   THEN Goto(p, "sr_errlock") /\ UNCHANGED res
                   ELSE Ret(p, [err |-> ErrNil, id |-> None, out |-> "stream"])
              /\ UNCHANGED <<State, LastActivity, muW>>
         [] pc[p] = "sr_errlock" ->
              /\ CanLock(s)
              /\ State' = [State EXCEPT ![s] = StateActive]
              /\ Ret(p, [err |-> ErrStream, id |-> None, out |-> None])
              /\ UNCHANGED <<LastActivity, muW>>
         [] OTHER -> FALSE
    /\ UNCHANGED <<mgrVars, Characters, cancelled, llmProvider, wd, now, op, arg>>
    /\ UNCHANGED <<ccVars, updVars, botVars, strVars, pmVars>>

\* ---------------------------------------------------------------- watchdog
\* checkInputsLoop: select { case <-s.ctx.Done(): return
WD_Exit(s) ==
    /\ wd[s] = "select"
    /\ cancelled[s]
    /\ wd' = [wd EXCEPT ![s] = "exited"]
    /\ UNCHANGED <<mgrVars, State, LastActivity, Characters, cancelled, muW,
                   llmProvider, now, op, pc, arg, res>>
    /\ UNCHANGED <<ccVars, updVars, botVars, strVars, pmVars>>

\* checkInputsLoop: case <-ticker.C: CheckInputs() finds nothing; checkTimeout
\* reads LastActivity under RLock and goes on to Stop after more than 30
\* minutes of inactivity
WD_Tick(s) ==
    /\ wd[s] = "select"
    /\ CanRLock(s)
    /\ wd' = [wd EXCEPT ![s] = IF now - LastActivity[s] > TimeoutMinutes
                                 THEN "stop_cancel" ELSE "select"]
    /\ UNCHANGED <<mgrVars, State, LastActivity, Characters, cancelled, muW,
                   llmProvider, now, op, pc, arg, res>>
    /\ UNCHANGED <<ccVars, updVars, botVars, strVars, pmVars>>

\* checkTimeout's s.Stop(): s.cancel()
WD_StopCancel(s) ==
    /\ wd[s] = "stop_cancel"
    /\ cancelled' = [cancelled EXCEPT ![s] = TRUE]
    /\ wd' = [wd EXCEPT ![s] = "stop_lock"]
    /\ UNCHANGED <<mgrVars, State, LastActivity, Characters, muW, llmProvider,
                   now, op, pc, arg, res>>
    /\ UNCHANGED <<ccVars, updVars, botVars, strVars, pmVars>>

\* checkTimeout's s.Stop(): Lock; State = Idle; Unlock; back to the select
WD_StopLock(s) ==
    /\ wd[s] = "stop_lock"
    /\ CanLock(s)
    /\ State' = [State EXCEPT ![s] = StateIdle]
    /\ wd' = [wd EXCEPT ![s] = "select"]
    /\ UNCHANGED <<mgrVars, LastActivity, Characters, cancelled, muW, llmProvider,
                   now, op, pc, arg, res>>
    /\ UNCHANGED <<ccVars, updVars, botVars, strVars, pmVars>>

\* ------------------------------------------------------------ specifications
\* Spec: one session object and every operation of Session on it, with its
\* watchdog and the clock.  Sessions share no state (see SpecMgr), so what
\* holds of one session alone holds of each.
SessionStep(p) ==
    \/ Start(p)
    \/ Stop_Cancel(p)
    \/ Stop_Lock(p)
    \/ AddCharacter(p)
    \/ ProcessInput(p)
    \/ StreamResponse(p)

WatchdogStep(s) ==
    \/ WD_Exit(s)
    \/ WD_Tick(s)
    \/ WD_StopCancel(s)
    \/ WD_StopLock(s)

Next ==
    \/ AdvanceClock
    \/ \E p \in Procs : Call(p, SessionOps, SessionUnderTest) \/ Return(p) \/ SessionStep(p)
    \/ \E s \in SessionUnderTest : WatchdogStep(s)

Spec == Init /\ [][Next]_vars

\* The Go scheduler runs every runnable goroutine, and a goroutine waiting for
\* a mutex gets it if it is released again and again (sync.Mutex hands the
\* lock to a starving waiter); a select with several ready cases takes each
\* of them sooner or later.  Nothing obliges a caller to call, or time to pass.
Fairness ==
    /\ \A p \in Procs : WF_vars(Return(p)) /\ SF_vars(SessionStep(p))
    /\ \A s \in SessionUnderTest : SF_vars(WatchdogStep(s)) /\ SF_vars(WD_Exit(s))

FairSpec == Spec /\ Fairness

\* SpecRestart: Spec, and a caller that holds the session calls Start once
\* more when the watchdog started by the previous Start has left its loop.
\* Start looks at neither s.ctx nor s.State: it takes the mutex, writes
\* Active and starts a new checkInputsLoop goroutine.
StartAgain(p) ==
    /\ op[p] = "idle"
    /\ \E s \in SessionUnderTest :
        /\ wd[s] = "exited"
        /\ \A q \in Procs : ~(op[q] = "Start" /\ arg[q].sess = s)
        /\ op' = [op EXCEPT ![p] = "Start"]
        /\ pc' = [pc EXCEPT ![p] = FirstPc("Start")]
        /\ arg' = [arg EXCEPT ![p] = [chat |-> None, sess |-> s, player |-> None]]
        /\ res' = [res EXCEPT ![p] = NoRes]
    /\ UNCHANGED <<mgrVars, sessVars, now>>
    /\ UNCHANGED <<ccVars, updVars, botVars, strVars, pmVars>>

NextRestart ==
    \/ Next
    \/ \E p \in Procs : StartAgain(p)

SpecRestart == Init /\ [][NextRestart]_vars

\* SpecMgr: the registry with every session object, the operations of
\* SessionManager, and Session.Start and Session.Stop, which make a session
\* Active and Idle.
MgrMenu == ManagerOps \cup {"Start", "Stop"}

MgrStep(p) ==
    \/ SM_LockAnnounce(p)
    \/ AddSession_Lock(p)
    \/ RemoveSession_Lock(p)
    \/ SM_Unlock(p)
    \/ GetSession_RLock(p)
    \/ GetSession_RUnlock(p)
    \/ PPM_GetReturned(p)
    \/ PPM_IsActive(p)
    \/ Start(p)
    \/ Stop_Cancel(p)
    \/ Stop_Lock(p)
    \/ ProcessInput(p)

NextMgr == \E p \in Procs : Call(p, MgrMenu, Sessions) \/ Return(p) \/ MgrStep(p)

InitMgr == InitWith({[s \in Sessions |-> "ok"]})

SpecMgr == InitMgr /\ [][NextMgr]_vars

\* Every runnable goroutine runs, and one that waits for a mutex gets it if
\* it is released again and again.
FairSpecMgr == SpecMgr /\ \A p \in Procs : SF_vars(MgrStep(p))

\* ---------------------------------------------------------- bot commands
\* A transport goroutine begins /start or /stop for a chat, or a lookup.
\* /start makes a new session object: one that no one has started yet.
CallCmd(p) ==
    /\ op[p] = "idle"
    /\ \E o \in {"StartCommand", "StopCommand", "GetSession"}, c \in Chats, s \in Sessions :
        /\ o = "StartCommand" =>
              /\ wd[s] = "off"
              /\ \A q \in Procs : ~(op[q] = "StartCommand" /\ arg[q].sess = s)
        /\ o # "StartCommand" => \A s2 \in Sessions : s <= s2
        /\ op' = [op EXCEPT ![p] = o]
        /\ pc' = [pc EXCEPT ![p] = CASE o = "StartCommand" -> "sc_start"
                                     [] o = "StopCommand" -> "st_rlock"
                                     [] OTHER -> "sm_rlock"]
        /\ arg' = [arg EXCEPT ![p] = [chat |-> c,
                                      sess |-> IF o = "StartCommand" THEN s ELSE None,
                                      player |-> None]]
        /\ res' = [res EXCEPT ![p] = NoRes]
    /\ UNCHANGED <<mgrVars, sessVars, now>>
    /\ UNCHANGED <<ccVars, updVars, botVars, strVars, pmVars>>

\* StartCommand: session := NewSession(...); session.Start();
\* sessionMgr.AddSession(chatID, session)
StartCommand(p) ==
    /\ op[p] = "StartCommand"
    /\ LET s == arg[p].sess
           c == arg[p].chat IN
       CASE pc[p] = "sc_start" ->
              /\ CanLock(s)
              /\ State' = [State EXCEPT ![s] = StateActive]
              /\ LastActivity' = [LastActivity EXCEPT ![s] = now]
              /\ wd' = [wd EXCEPT ![s] = "select"]
              /\ Goto(p, "sc_announce")
              /\ UNCHANGED <<mgrVars, res>>
         [] pc[p] = "sc_announce" ->
              /\ smW = None
              /\ smW' = p
              /\ Goto(p, "sc_wait")
              /\ UNCHANGED <<sessions, smR, registered, State, LastActivity, wd, res>>
         [] pc[p] = "sc_wait" ->
              /\ SMCanLock(p)
              /\ sessions' = [sessions EXCEPT ![c] = s]
              /\ registered' = [registered EXCEPT ![c] = s]
              /\ Goto(p, "sc_unlock")
              /\ UNCHANGED <<smW, smR, State, LastActivity, wd, res>>
         [] pc[p] = "sc_unlock" ->
              /\ smW' = None
              /\ Ret(p, [err |-> ErrNil, id |-> c, out |-> s])
              /\ UNCHANGED <<sessions, smR, registered, State, LastActivity, wd>>
         [] OTHER -> FALSE
    /\ UNCHANGED <<Characters, cancelled, muW, llmProvider, now, op, arg>>
    /\ UNCHANGED <<ccVars, updVars, botVars, strVars, pmVars>>

\* StopCommand: session, exists := GetSession(chatID); if !exists: a message;
\* session.Stop(); sessionMgr.RemoveSession(chatID)
StopCommand(p) ==
    /\ op[p] = "StopCommand"
    /\ LET s == arg[p].sess
           c == arg[p].chat IN
       CASE pc[p] = "st_rlock" ->
              /\ SMCanRLock
              /\ smR' = smR \cup {p}
              /\ arg' = [arg EXCEPT ![p].sess = sessions[c]]
              /\ Goto(p, "st_runlock")
              /\ UNCHANGED <<sessions, smW, registered, State, cancelled, res>>
         [] pc[p] = "st_runlock" ->
              /\ smR' = smR \ {p}
              /\ IF s = None
                   THEN Ret(p, [err |-> ErrNoSession, id |-> c, out |-> None])
                   ELSE Goto(p, "st_cancel") /\ UNCHANGED res
              /\ UNCHANGED <<sessions, smW, registered, State, cancelled, arg>>
         [] pc[p] = "st_cancel" ->
              /\ cancelled' = [cancelled EXCEPT ![s] = TRUE]
              /\ Goto(p, "st_lock")
              /\ UNCHANGED <<mgrVars, State, arg, res>>
         [] pc[p] = "st_lock" ->
              /\ CanLock(s)
              /\ State' = [State EXCEPT ![s] = StateIdle]
              /\ Goto(p, "st_announce")
              /\ UNCHANGED <<mgrVars, cancelled, arg, res>>
         [] pc[p] = "st_announce" ->
              /\ smW = None
              /\ smW' = p
              /\ Goto(p, "st_wait")
              /\ UNCHANGED <<sessions, smR, registered, State, cancelled, arg, res>>
         [] pc[p] = "st_wait" ->
              /\ SMCanLock(p)
              /\ sessions' = [sessions EXCEPT ![c] = None]
              /\ registered' = [registered EXCEPT ![c] = None]
              /\ Goto(p, "st_unlock")
              /\ UNCHANGED <<smW, smR, State, cancelled, arg, res>>
         [] pc[p] = "st_unlock" ->
              /\ smW' = None
              /\ Ret(p, [err |-> ErrNil, id |-> c, out |-> None])
              /\ UNCHANGED <<sessions, smR, registered, State, cancelled, arg>>
         [] OTHER -> FALSE
    /\ UNCHANGED <<LastActivity, Characters, muW, llmProvider, wd, now, op>>
    /\ UNCHANGED <<ccVars, updVars, botVars, strVars, pmVars>>

\* SpecCmd: the life of sessions under /start and /stop, with the registry,
\* every session's watchdog and the clock.
NextCmd ==
    \/ AdvanceClock
    \/ \E p \in Procs :
          \/ CallCmd(p) \/ Return(p)
          \/ StartCommand(p) \/ StopCommand(p)
          \/ GetSession_RLock(p) \/ GetSession_RUnlock(p)
    \/ \E s \in Sessions : WatchdogStep(s)

SpecCmd == InitMgr /\ [][NextCmd]_vars

\* SpecCC: one character creation, from NewCharacterCreator on, with or
\* without an LLM provider; the player sends one message after another.
InitCC ==
    /\ sessions = [c \in Chats |-> None]
    /\ smW = None
    /\ smR = {}
    /\ registered = [c \in Chats |-> None]
    /\ State = [s \in Sessions |-> StateIdle]
    /\ LastActivity = [s \in Sessions |-> 0]
    /\ Characters = [s \in Sessions |-> [pl \in Players |-> None]]
    /\ cancelled = [s \in Sessions |-> FALSE]
    /\ muW = [s \in Sessions |-> None]
    /\ llmProvider = [s \in Sessions |-> "ok"]
    /\ wd = [s \in Sessions |-> "off"]
    /\ now = 0
    /\ op = [p \in Procs |-> "idle"]
    /\ pc = [p \in Procs |-> "idle"]
    /\ arg = [p \in Procs |-> NoArg]
    /\ res = [p \in Procs |-> NoRes]
    /\ NewCharacterCreator({TRUE, FALSE})
    /\ NoUpdateCall
    /\ NoBot
    /\ NewStreamer
    /\ NewProviderManager

NextCC == \E input \in Inputs : CC_ProcessInput(input) /\ UNCHANGED <<botVars, strVars, pmVars>>

SpecCC == InitCC /\ [][NextCC]_vars

\* SpecApp: the appearance step alone, with every pair of d20 rolls.  The
\* creator stands in the Gear state, with a character of any race; the
\* player's next message that is no question makes ProcessInput roll the
\* appearance.
AllD20 == 1..20
Races == {Chelovek, Poluroslik, Gnom, VysshijElf, LesnojElf}
GearInput(input) ==
    /\ ccState = CC_Gear
    /\ ~IsLLMQuestion(input)
    /\ processAppearanceRolling(AllD20, <<>>)
    /\ UNCHANGED ccLLM
    /\ UNCHANGED <<mgrVars, sessVars, now, op, pc, arg, res, updVars, botVars, strVars, pmVars>>

InitApp ==
    /\ sessions = [c \in Chats |-> None]
    /\ smW = None
    /\ smR = {}
    /\ registered = [c \in Chats |-> None]
    /\ State = [s \in Sessions |-> StateIdle]
    /\ LastActivity = [s \in Sessions |-> 0]
    /\ Characters = [s \in Sessions |-> [pl \in Players |-> None]]
    /\ cancelled = [s \in Sessions |-> FALSE]
    /\ muW = [s \in Sessions |-> None]
    /\ llmProvider = [s \in Sessions |-> "ok"]
    /\ wd = [s \in Sessions |-> "off"]
    /\ now = 0
    /\ op = [p \in Procs |-> "idle"]
    /\ pc = [p \in Procs |-> "idle"]
    /\ arg = [p \in Procs |-> NoArg]
    /\ res = [p \in Procs |-> NoRes]
    /\ NoUpdateCall
    /\ NoBot
    /\ NewStreamer
    /\ NewProviderManager
    /\ ccState = CC_Gear
    /\ ccData \in {[NewData EXCEPT !.Name = In_Ivan, !.Race = race] : race \in Races}
    /\ ccLLM = FALSE
    /\ ccCall = NoCall

NextApp == \E input \in Inputs : GearInput(input)

SpecApp == InitApp /\ [][NextApp]_vars

\* ------------------------------------------------- updating a sheet
\* A call of ParseCharacterUpdateFromResponse on the response.
CallParseCharacterUpdateFromResponse ==
    /\ ~updParsed.called
    /\ updParsed' = [called |-> TRUE] @@ ParseCharacterUpdateFromResponse(updResponse)
    /\ UNCHANGED <<updSheet, updResponse, updUpdate, updOut>>
    /\ UNCHANGED <<mgrVars, sessVars, now, op, pc, arg, res, ccVars, botVars, strVars, pmVars>>

\* A call of ApplyCharacterUpdate on the sheet, with any update.
CallApplyCharacterUpdate(update) ==
    /\ ~updOut.called
    /\ updUpdate' = update
    /\ updOut' = [called |-> TRUE, by |-> "caller",
                   sheet |-> ApplyCharacterUpdate(updSheet, update)]
    /\ UNCHANGED <<updSheet, updResponse, updParsed>>
    /\ UNCHANGED <<mgrVars, sessVars, now, op, pc, arg, res, ccVars, botVars, strVars, pmVars>>

\* Session.ProcessInput behind the LLM's answer, for one character: the
\* update parsed from the response (never nil) is applied to the sheet.
ApplyParsedUpdate ==
    /\ updParsed.called
    /\ ~updOut.called
    /\ updUpdate' = updParsed.update
    /\ updOut' = [called |-> TRUE, by |-> "ProcessInput",
                   sheet |-> ApplyCharacterUpdate(updSheet, updParsed.update)]
    /\ UNCHANGED <<updSheet, updResponse, updParsed>>
    /\ UNCHANGED <<mgrVars, sessVars, now, op, pc, arg, res, ccVars, botVars, strVars, pmVars>>

\* SpecUpd: the two functions on every sheet, response and update of the sets
\* above.
InitUpd ==
    /\ sessions = [c \in Chats |-> None]
    /\ smW = None
    /\ smR = {}
    /\ registered = [c \in Chats |-> None]
    /\ State = [s \in Sessions |-> StateIdle]
    /\ LastActivity = [s \in Sessions |-> 0]
    /\ Characters = [s \in Sessions |-> [pl \in Players |-> None]]
    /\ cancelled = [s \in Sessions |-> FALSE]
    /\ muW = [s \in Sessions |-> None]
    /\ llmProvider = [s \in Sessions |-> "ok"]
    /\ wd = [s \in Sessions |-> "off"]
    /\ now = 0
    /\ op = [p \in Procs |-> "idle"]
    /\ pc = [p \in Procs |-> "idle"]
    /\ arg = [p \in Procs |-> NoArg]
    /\ res = [p \in Procs |-> NoRes]
    /\ NewCharacterCreator({FALSE})
    /\ updSheet \in Sheets
    /\ updResponse \in Responses
    /\ updParsed = NoParse
    /\ updUpdate = EmptyUpdate
    /\ updOut = NoSheet
    /\ NoBot
    /\ NewStreamer
    /\ NewProviderManager

NextUpd ==
    \/ CallParseCharacterUpdateFromResponse
    \/ \E update \in Updates : CallApplyCharacterUpdate(update)
    \/ ApplyParsedUpdate

SpecUpd == InitUpd /\ [][NextUpd]_vars

\* ------------------------------------------------------------- one bot
\* SpecBot: Bot.processUpdates and what HandleUpdate calls, for the updates
\* of one chat.  main starts one processUpdates goroutine (Bot.Start); the
\* three middlewares main installs let every update pass.
BotChats == {1}
BotWorkers == {1}
Campaign == <<"c", "1">>
BotTexts == {In_Ivan, In_Da, In_1}
BotUpdates ==
    [kind : {"text"}, text : BotTexts]
      \cup [kind : {"newchar", "cancel", "stop"}, text : {<<>>}]
      \cup [kind : {"character"}, text : {<<>>, In_I, In_Ivan}]
      \cup [kind : {"start"}, text : {Campaign}]

Handled(kind, route, deleted, save) ==
    botLast' = [kind |-> kind, route |-> route, deleted |-> deleted, save |-> save]

\* processUpdates is at its select with HandleUpdate running all the same
AtSelectWhileHandling == TRUE
\* processUpdates is at its select: no HandleUpdate call of it is running
AtSelect == botPc = "select"

\* processUpdates: case update, ok := <-b.updates, and the call of HandleUpdate
BotReceive(update) ==
    /\ AtSelect
    /\ botUpdate' = update
    /\ botPc' = "handle"
    /\ botInFlight' = botInFlight + 1
    /\ UNCHANGED <<creators, charFile, botLast>>
    /\ UNCHANGED <<mgrVars, sessVars, now, op, pc, arg, res, ccVars, updVars, strVars, pmVars>>

\* HandleUpdate returns to processUpdates, which goes back to its select
BotReturn ==
    /\ botPc' = "select"
    /\ botInFlight' = botInFlight - 1
    /\ botUpdate' = NoUpdate

\* ProcessCharacterCreation: ProcessInput of the chat's creator, the answer
\* sent; a creation that is complete is saved and deleted from the map.
\* SendMessage and SaveToFile (os.WriteFile) succeed or fail.
ProcessCharacterCreation(c, text) ==
    /\ CC_ProcessInput(text)
    /\ \E send \in {"ok", "failed"}, save \in {"ok", "failed"} :
         IF send = "failed"
           THEN /\ Handled("text", "creator", FALSE, "none")
                /\ UNCHANGED <<creators, charFile>>
         ELSE IF ccCall'.ok /\ ccState' \in {CC_Complete, CC_Save}
           THEN /\ charFile' = IF save = "ok" THEN [written |-> TRUE, name |-> ccData'.Name]
                               ELSE charFile
                /\ creators' = creators \ {c}
                /\ Handled("text", "creator", TRUE, save)
         ELSE /\ Handled("text", "creator", FALSE, "none")
              /\ UNCHANGED <<creators, charFile>>
    /\ BotReturn
    /\ UNCHANGED <<strVars, pmVars>>

\* SessionManager.ProcessPlayerMessage called by handlePlayerMessage: without
\* a session, or with one that is not Active, the error is sent to the chat;
\* otherwise Session.ProcessInput takes s.mu and stops in UpdateActivity.
SessionPath(w, c) ==
    /\ Handled("text", "session", FALSE, "none")
    /\ IF sessions[c] # None /\ State[sessions[c]] = StateActive /\ CanLock(sessions[c])
         THEN /\ muW' = [muW EXCEPT ![sessions[c]] = w]
              /\ botPc' = "blocked"
              /\ UNCHANGED <<botUpdate, botInFlight>>
         ELSE /\ sessions[c] # None => State[sessions[c]] # StateActive
              /\ BotReturn
              /\ UNCHANGED muW
    /\ UNCHANGED <<creators, charFile>>
    /\ UNCHANGED <<mgrVars, State, LastActivity, Characters, cancelled, llmProvider, wd,
                   now, op, pc, arg, res, ccVars, updVars, strVars, pmVars>>

handlePlayerMessageSessionFirst(w, c, text) ==
    IF c \in creators /\ sessions[c] = None
      THEN ProcessCharacterCreation(c, text) ELSE SessionPath(w, c)

\* handlePlayerMessage
handlePlayerMessage(w, c, text) ==
    IF c \in creators THEN ProcessCharacterCreation(c, text) ELSE SessionPath(w, c)

\* The creator NewCharCommand and CharacterCommand put into the map: a new
\* one, with the session's provider or one made from the configuration, if
\* that can be loaded.
StartCreation(c, name) ==
    /\ creators' = creators \cup {c}
    /\ ccState' = CC_Name
    /\ ccData' = [NewData EXCEPT !.Name = name]
    /\ ccLLM' \in IF sessions[c] # None THEN {TRUE} ELSE {TRUE, FALSE}
    /\ ccCall' = NoCall

NewCharCommandReplacing(c) ==
    /\ StartCreation(c, <<>>)
    /\ Handled("newchar", "created", FALSE, "none")
    /\ BotReturn
    /\ UNCHANGED <<charFile, mgrVars, sessVars, now, op, pc, arg, res, updVars, strVars, pmVars>>

\* NewCharCommand
NewCharCommand(c) ==
    /\ IF c \in creators
         THEN /\ Handled("newchar", "rejected", FALSE, "none")
              /\ UNCHANGED <<creators, ccVars>>
         ELSE /\ StartCreation(c, <<>>)
              /\ Handled("newchar", "created", FALSE, "none")
    /\ BotReturn
    /\ UNCHANGED <<charFile, mgrVars, sessVars, now, op, pc, arg, res, updVars, strVars, pmVars>>

\* CharacterCommand: without arguments the help; with a name a creator for it,
\* unless there is one, the name is too short or too long, or the character
\* manager has a character of that name.
CharacterCommand(c, args) ==
    /\ IF args = <<>>
         THEN /\ Handled("character", "help", FALSE, "none")
              /\ UNCHANGED <<creators, ccVars>>
       ELSE IF c \in creators \/ ByteLen(args) < 2 \/ ByteLen(args) > 50
         THEN /\ Handled("character", "rejected", FALSE, "none")
              /\ UNCHANGED <<creators, ccVars>>
       ELSE \/ /\ Handled("character", "rejected", FALSE, "none")
               /\ UNCHANGED <<creators, ccVars>>
            \/ /\ StartCreation(c, args)
               /\ Handled("character", "created", FALSE, "none")
    /\ BotReturn
    /\ UNCHANGED <<charFile, mgrVars, sessVars, now, op, pc, arg, res, updVars, strVars, pmVars>>

\* CancelCharacterCreation
CancelCharacterCreation(c) ==
    /\ creators' = creators \ {c}
    /\ Handled("cancel", IF c \in creators THEN "cancelled" ELSE "none", c \in creators, "none")
    /\ BotReturn
    /\ UNCHANGED <<charFile, mgrVars, sessVars, now, op, pc, arg, res, ccVars, updVars, strVars, pmVars>>

\* StartCommand: without a campaign the list of campaigns; with one, and a
\* provider made from the configuration, a new session is started and put
\* into the registry.
BotStartCommand(c, args) ==
    /\ Handled("start", "command", FALSE, "none")
    /\ \/ /\ UNCHANGED <<mgrVars, sessVars>>
       \/ /\ args # <<>>
          /\ \E s \in Sessions :
               /\ wd[s] = "off" /\ ~cancelled[s] /\ \A s2 \in Sessions : wd[s2] = "off" => s <= s2
               /\ State' = [State EXCEPT ![s] = StateActive]
               /\ LastActivity' = [LastActivity EXCEPT ![s] = now]
               /\ wd' = [wd EXCEPT ![s] = "select"]
               /\ sessions' = [sessions EXCEPT ![c] = s]
               /\ registered' = [registered EXCEPT ![c] = s]
          /\ UNCHANGED <<smW, smR, Characters, cancelled, muW, llmProvider>>
    /\ BotReturn
    /\ UNCHANGED <<creators, charFile, now, op, pc, arg, res, ccVars, updVars, strVars, pmVars>>

\* StopCommand: session.Stop() and RemoveSession, if the chat has a session.
\* (The worker is not in ProcessInput while it runs a command, so Stop gets
\* the session's mutex.)
BotStopCommand(c) ==
    /\ Handled("stop", "command", FALSE, "none")
    /\ IF sessions[c] = None
         THEN UNCHANGED <<mgrVars, sessVars>>
         ELSE /\ cancelled' = [cancelled EXCEPT ![sessions[c]] = TRUE]
              /\ State' = [State EXCEPT ![sessions[c]] = StateIdle]
              /\ sessions' = [sessions EXCEPT ![c] = None]
              /\ registered' = [registered EXCEPT ![c] = None]
              /\ UNCHANGED <<smW, smR, LastActivity, Characters, muW, llmProvider, wd>>
    /\ BotReturn
    /\ UNCHANGED <<creators, charFile, now, op, pc, arg, res, ccVars, updVars, strVars, pmVars>>

\* HandleUpdate: the middlewares pass; a command goes to its handler, a text
\* to handlePlayerMessage.
HandleUpdate(w, c) ==
    /\ botPc = "handle"
    /\ CASE botUpdate.kind = "text" -> handlePlayerMessage(w, c, botUpdate.text)
         [] botUpdate.kind = "newchar" -> NewCharCommand(c)
         [] botUpdate.kind = "character" -> CharacterCommand(c, botUpdate.text)
         [] botUpdate.kind = "cancel" -> CancelCharacterCreation(c)
         [] botUpdate.kind = "start" -> BotStartCommand(c, botUpdate.text)
         [] botUpdate.kind = "stop" -> BotStopCommand(c)

InitBot == InitWith({[s \in Sessions |-> "ok"]})

NextBot ==
    \/ \E update \in BotUpdates : BotReceive(update)
    \/ \E w \in BotWorkers, c \in BotChats : HandleUpdate(w, c)

SpecBot == InitBot /\ [][NextBot]_vars

\* -------------------------------------------------------- one streamer
\* SpecStream: the callers of Streamer.Stream and the processQueue goroutine.
\* Stream: a resultChan with a buffer of one, a job whose callback sends the
\* error of a chunk to it, and the job into the queue.  (The queue holds 100
\* jobs, more than there are callers here, so the send never waits and the
\* five second timeout is never taken.)
Stream(j, n) ==
    /\ strJobs[j].pc = "none"
    /\ Len(strQueue) < QueueCap
    /\ strQueue' = Append(strQueue, j)
    /\ strJobs' = [strJobs EXCEPT ![j] = [NoJob EXCEPT !.pc = "waiting", !.chunks = n]]
    /\ UNCHANGED <<strWorker, strSent>>

\* Stream: return <-resultChan, the one receive there is
Stream_Return(j) ==
    /\ strJobs[j].pc = "waiting"
    /\ strJobs[j].resultChan # <<>>
    /\ strJobs' = [strJobs EXCEPT ![j] = [@ EXCEPT !.pc = "returned",
                                                   !.result = Head(strJobs[j].resultChan),
                                                   !.resultChan = Tail(strJobs[j].resultChan)]]
    /\ UNCHANGED <<strQueue, strWorker, strSent>>

\* processQueue: case job, ok := <-s.queue
processQueue ==
    /\ strWorker.pc = "select"
    /\ strQueue # <<>>
    /\ strWorker' = [pc |-> "send", job |-> Head(strQueue), i |-> 0, err |-> "nil"]
    /\ strQueue' = Tail(strQueue)
    /\ UNCHANGED <<strJobs, strSent>>

\* processJob: SendMessage (or SendReply) of chunk i, which Telegram takes or not
processJob_Send ==
    /\ strWorker.pc = "send"
    /\ \E err \in {"nil", "failed"} :
         /\ strWorker' = [strWorker EXCEPT !.pc = "callback", !.err = err]
         /\ strSent' = IF err = "nil"
                         THEN Append(strSent, <<strWorker.job, strWorker.i>>)
                         ELSE strSent
    /\ UNCHANGED <<strQueue, strJobs>>

\* processJob: job.callback(i, err), that is resultChan <- err, which waits
\* for room in the channel; then the next chunk, or the end of the job after
\* its last chunk or after an error.
processJob_Callback ==
    /\ strWorker.pc = "callback"
    /\ Len(strJobs[strWorker.job].resultChan) < ResultChanCap
    /\ strJobs' = [strJobs EXCEPT ![strWorker.job].resultChan = Append(@, strWorker.err)]
    /\ strWorker' = IF strWorker.err # "nil" \/ strWorker.i + 1 = strJobs[strWorker.job].chunks
                      THEN AtQueue
                      ELSE [strWorker EXCEPT !.pc = "send", !.i = @ + 1]
    /\ UNCHANGED <<strQueue, strSent>>

\* The streamer shares no state with the rest of the program.
StreamerOnly ==
    UNCHANGED <<mgrVars, sessVars, now, op, pc, arg, res, ccVars, updVars, botVars, pmVars>>

NextStream ==
    \/ \E j \in Jobs, n \in 1..MaxChunks : Stream(j, n) /\ StreamerOnly
    \/ \E j \in Jobs : Stream_Return(j) /\ StreamerOnly
    \/ processQueue /\ StreamerOnly
    \/ processJob_Send /\ StreamerOnly
    \/ processJob_Callback /\ StreamerOnly

SpecStream == InitBot /\ [][NextStream]_vars

\* ------------------------------------------------- one provider manager
\* SpecPM: goroutines that call ProviderManager.ReloadProvider and goroutines
\* that read the provider and its configuration as ResponseHandler does.
PMCanLockAlways(p) == TRUE

\* pm.mu.Lock() returns
PMCanLock(p) == pmMu = None

PMAt(p, at) == pmCall[p].pc = at
PMSet(p, r) == pmCall' = [pmCall EXCEPT ![p] = r]

ReloadProvider_Call(p, newConfig) ==
    /\ PMAt(p, "idle")
    /\ PMSet(p, [NoPMCall EXCEPT !.pc = "lock", !.newConfig = newConfig,
                                 !.seen = pmCall[p].seen])
    /\ UNCHANGED <<pmProvider, pmConfig, pmMu>>

\* pm.mu.Lock(); defer pm.mu.Unlock()
ReloadProvider_Lock(p) ==
    /\ PMAt(p, "lock")
    /\ PMCanLock(p)
    /\ pmMu' = p
    /\ PMSet(p, [pmCall[p] EXCEPT !.pc = "create",
                                  !.before = [provider |-> pmProvider, config |-> pmConfig]])
    /\ UNCHANGED <<pmProvider, pmConfig>>

\* provider, err := NewProviderFromConfig(newConfig); if err != nil { return }
ReloadProvider_Create(p) ==
    /\ PMAt(p, "create")
    /\ PMSet(p, [pmCall[p] EXCEPT
                   !.provider = NewProviderFromConfig(pmCall[p].newConfig).provider,
                   !.err = NewProviderFromConfig(pmCall[p].newConfig).err,
                   !.pc = IF NewProviderFromConfig(pmCall[p].newConfig).err = "nil"
                            THEN "set_provider" ELSE "unlock"])
    /\ UNCHANGED <<pmProvider, pmConfig, pmMu>>

\* pm.currentProvider = provider
ReloadProvider_SetProvider(p) ==
    /\ PMAt(p, "set_provider")
    /\ pmProvider' = pmCall[p].provider
    /\ PMSet(p, [pmCall[p] EXCEPT !.pc = "set_config"])
    /\ UNCHANGED <<pmConfig, pmMu>>

\* pm.config = newConfig
ReloadProvider_SetConfig(p) ==
    /\ PMAt(p, "set_config")
    /\ pmConfig' = pmCall[p].newConfig
    /\ PMSet(p, [pmCall[p] EXCEPT !.pc = "unlock"])
    /\ UNCHANGED <<pmProvider, pmMu>>

\* the deferred pm.mu.Unlock()
ReloadProvider_Unlock(p) ==
    /\ PMAt(p, "unlock")
    /\ pmMu' = IF pmMu = p THEN None ELSE pmMu
    /\ PMSet(p, [pmCall[p] EXCEPT !.pc = "ret"])
    /\ UNCHANGED <<pmProvider, pmConfig>>

\* the caller has the error, or nil
ReloadProvider_Return(p) ==
    /\ PMAt(p, "ret")
    /\ PMSet(p, [NoPMCall EXCEPT !.seen = pmCall[p].seen])
    /\ UNCHANGED <<pmProvider, pmConfig, pmMu>>

\* ResponseHandler.GenerateRequest: Lock; provider := pm.currentProvider;
\* cfg := pm.config; Unlock
ReadProviderAndConfig(p) ==
    /\ PMAt(p, "idle")
    /\ PMCanLock(p)
    /\ PMSet(p, [pmCall[p] EXCEPT !.seen = [provider |-> pmProvider, config |-> pmConfig]])
    /\ UNCHANGED <<pmProvider, pmConfig, pmMu>>

\* Nor does the provider manager.
ProviderManagerOnly ==
    UNCHANGED <<mgrVars, sessVars, now, op, pc, arg, res, ccVars, updVars, botVars, strVars>>

NextPM ==
    \/ \E p \in Procs, newConfig \in Configs :
          ReloadProvider_Call(p, newConfig) /\ ProviderManagerOnly
    \/ \E p \in Procs : ReloadProvider_Lock(p) /\ ProviderManagerOnly
    \/ \E p \in Procs : ReloadProvider_Create(p) /\ ProviderManagerOnly
    \/ \E p \in Procs : ReloadProvider_SetProvider(p) /\ ProviderManagerOnly
    \/ \E p \in Procs : ReloadProvider_SetConfig(p) /\ ProviderManagerOnly
    \/ \E p \in Procs : ReloadProvider_Unlock(p) /\ ProviderManagerOnly
    \/ \E p \in Procs : ReloadProvider_Return(p) /\ ProviderManagerOnly
    \/ \E p \in Procs : ReadProviderAndConfig(p) /\ ProviderManagerOnly

SpecPM == InitBot /\ [][NextPM]_vars

\* ------------------------------------------------------------------ claims
\* A goroutine is inside ProcessInput, between its Lock and its return.
PIPcs == {"pi_lock", "pi_ua", "pi_sheets1", "pi_sheets2", "pi_llm"}
InProcessInput(p) ==
    op[p] \in {"ProcessInput", "ProcessPlayerMessage"} /\ pc[p] \in PIPcs
\* ... and past its Lock: it holds the turn.
InTurn(p) == InProcessInput(p) /\ pc[p] # "pi_lock"

\* C1: a ProcessInput call that gets the session mutex while State is not
\* Active (Idle, Paused or Processing) returns the "not active" error at once:
\* no LLM request, and State, LastActivity and every sheet as they were.
C1_NotActiveRejected ==
    [][\A p \in Procs :
         (/\ InProcessInput(p) /\ pc[p] = "pi_lock" /\ pc'[p] # "pi_lock"
          /\ State[arg[p].sess] # StateActive)
         => /\ pc'[p] = "ret"
            /\ res'[p].err = ErrNotActive
            /\ State' = State
            /\ LastActivity' = LastActivity
            /\ Characters' = Characters]_vars

\* C2: a ProcessInput call that has taken the mutex of an Active session whose
\* provider answers returns in the end: the mutex released and, unless the
\* context was cancelled meanwhile, the LLM response as output and State Active.
C2_Returns ==
    \A p \in Procs :
        (/\ InTurn(p) /\ op[p] = "ProcessInput"
         /\ State[arg[p].sess] = StateActive
         /\ llmProvider[arg[p].sess] = "ok")
        ~> (/\ pc[p] = "ret" /\ op[p] = "ProcessInput"
            /\ \A s \in SessionUnderTest : muW[s] # p
            /\ \/ res[p].err = ErrGenerate
               \/ /\ res[p] = [err |-> ErrNil, id |-> None, out |-> "response"]
                  /\ \E s \in SessionUnderTest : State[s] = StateActive)

\* C3: of the ProcessInput calls on one session at most one is between its Lock
\* and its return, that one holds the session mutex, and so no other call is
\* in its LLM round trip or starts one before the first has returned.
C3_Serialized ==
    \A p \in Procs : InTurn(p) =>
        /\ muW[arg[p].sess] = p
        /\ \A q \in Procs \ {p} : InTurn(q) => arg[q].sess # arg[p].sess

\* C3, its case: one call holds the turn and a second call on the same session
\* waits at its Lock.
C3_Witness ==
    \E p, q \in Procs :
        /\ p # q /\ InTurn(p) /\ InProcessInput(q) /\ pc[q] = "pi_lock"
        /\ arg[p].sess = arg[q].sess

\* C4: a ProcessInput call on an Active session whose LLM request fails returns the
\* "failed to generate response" error in the end, with State Active at that
\* moment; and the returning step modifies no sheet.
C4_LLMFailure ==
    /\ \A p \in Procs :
          (/\ InTurn(p) /\ op[p] = "ProcessInput"
           /\ State[arg[p].sess] = StateActive
           /\ llmProvider[arg[p].sess] = "fail")
          ~> (/\ pc[p] = "ret" /\ res[p].err = ErrGenerate
              /\ \E s \in SessionUnderTest : State[s] = StateActive)
    /\ [][\A p \in Procs :
            (pc'[p] = "ret" /\ res'[p].err = ErrGenerate) => Characters' = Characters]_vars

\* C6: when Stop is called while a ProcessInput call on the same, Active,
\* session is in flight, that call ends with an error and Stop returns, leaving State Idle
\* once both have returned.
C6_StopCancels ==
    \A p, q \in Procs :
        (/\ op[p] = "Stop" /\ pc[p] = "cancel"
         /\ InTurn(q) /\ op[q] = "ProcessInput" /\ arg[q].sess = arg[p].sess
         /\ State[arg[p].sess] = StateActive)
        ~> (/\ op[p] = "Stop" /\ pc[p] = "ret"
            /\ ~InProcessInput(q)
            /\ \E s \in SessionUnderTest : State[s] = StateIdle)

\* C7: once a started session has been inactive for more than 30 minutes its
\* watchdog cancels the context, sets State to Idle and leaves its loop,
\* whatever ProcessInput calls run on the session (runs in which a
\* StreamResponse call is in flight are set aside).
C7_WatchdogStops ==
    \A s \in SessionUnderTest :
        (wd[s] # "off" /\ now - LastActivity[s] > TimeoutMinutes)
        ~> \/ cancelled[s] /\ State[s] = StateIdle /\ wd[s] = "exited"
           \/ \E p \in Procs : op[p] = "StreamResponse"

\* No session is ever in StateProcessing: ProcessInput and StreamResponse, the
\* only writers of that state, both call UpdateActivity first, with the mutex
\* already held.
NeverProcessing == \A s \in Sessions : State[s] \in {StateIdle, StateActive}

C9_RegistryIsMap ==
    \A p \in Procs : op[p] = "GetSession" =>
        /\ pc[p] = "sm_runlock" => arg[p].sess = registered[arg[p].chat]
        /\ pc[p] = "ret" => res[p] = [err |-> ErrNil, id |-> None, out |-> arg[p].sess]

\* C9, its case: GetSession has found a session for a chat id and still holds
\* the read lock while an AddSession of another session for the same id waits
\* in its Lock for the readers to leave.
C9_Witness ==
    \E p, q \in Procs :
        /\ op[p] = "GetSession" /\ pc[p] = "sm_runlock" /\ arg[p].sess # None
        /\ op[q] = "AddSession" /\ pc[q] = "sm_wait"
        /\ arg[q].chat = arg[p].chat /\ arg[q].sess # arg[p].sess

\* C10: ProcessPlayerMessage for a chat id that has no session when it looks
\* the id up returns the error "no active session for chat <id>" and no
\* output at once: the registry is as it was and no session mutex was taken,
\* so ProcessInput was not called.
C10_NoSession ==
    [][\A p \in Procs :
         (/\ op[p] = "ProcessPlayerMessage" /\ pc'[p] # pc[p]
          /\ \/ pc[p] = "sm_rlock" /\ sessions[arg[p].chat] = None
             \/ pc[p] = "sm_runlock" /\ arg[p].sess = None)
         => /\ sessions' = sessions
            /\ muW' = muW
            /\ State' = State
            /\ IF pc[p] = "sm_rlock"
                 THEN pc'[p] = "sm_runlock" /\ arg'[p].sess = None
                 ELSE /\ pc'[p] = "ret"
                      /\ res'[p] = [err |-> ErrNoSession, id |-> arg[p].chat,
                                    out |-> None]]_vars

\* C10, its case: ProcessPlayerMessage has returned that error for a chat id
\* while another chat id has a session.
C10_Witness ==
    \E p \in Procs, c \in Chats :
        /\ op[p] = "ProcessPlayerMessage" /\ pc[p] = "ret"
        /\ res[p] = [err |-> ErrNoSession, id |-> c, out |-> None]
        /\ sessions[c] = None
        /\ \E c2 \in Chats : sessions[c2] # None

\* The session has stopped: its context is cancelled, its State is Idle, its
\* watchdog has left the loop and no /stop on it is still under way.
Stopped(s) ==
    /\ cancelled[s] /\ State[s] = StateIdle /\ wd[s] = "exited"
    /\ \A p \in Procs : ~(op[p] = "StopCommand" /\ arg[p].sess = s /\ pc[p] # "ret")

\* C11: a stopped session is not left registered: a GetSession that looks up
\* a conversation id after its session has stopped, by /stop or by the
\* watchdog's inactivity timeout, reads not-found.
C11_StoppedIsRemoved ==
    [][\A p \in Procs :
         (/\ op[p] = "GetSession" /\ pc[p] = "sm_rlock" /\ pc'[p] = "sm_runlock"
          /\ sessions[arg[p].chat] # None
          /\ Stopped(sessions[arg[p].chat]))
         => arg'[p].sess = None]_vars

\* C12: in every state of the creator, a ProcessInput call whose input is a
\* question (it has an interrogative marker and is not a generate command in
\* the Name state) leaves State unchanged, whether the LLM answers, fails or
\* is absent.
QuestionInputs == {input \in Inputs : IsLLMQuestion(input)}
GenerateInputs == {input \in Inputs : IsGenerateCommand(input)}
C12_QuestionKeepsState ==
    [][\A input \in QuestionInputs :
         (/\ ~(ccState = CC_Name /\ input \in GenerateInputs)
          /\ CC_ProcessInput(input))
         => ccState' = ccState]_vars
\* a question was asked in the Stats step and the LLM failed
C12_Witness ==
    /\ ccState = CC_Stats
    /\ ccCall.msg = "llm_error"
    /\ ccCall.llm = LLMFailed

\* C13: State never moves backwards in the order Name, Race, Career, Stats,
\* Skills, Talents, Gear, Appearance, Personality, Review, Save, Complete:
\* every ProcessInput call leaves it unchanged or moves it to a later state.
C13_NeverBackwards == [][ccState' >= ccState]_vars
\* a creation that went all the way to Save
C13_Witness == ccState = CC_Save /\ ccCall.msg = "saving"

\* C14: after every ProcessInput call, Data.TotalXP is the sum of the fields
\* XPFromRace, XPFromCareer and XPFromStats of Data.
C14_TotalXPIsSum ==
    ccData.TotalXP = ccData.XPFromRace + ccData.XPFromCareer + ccData.XPFromStats

\* C15: in the Name state a plain answer (no question, no generate, confirm
\* or reject word) is accepted exactly when it has at least 2 characters: it
\* becomes Data.Name and State moves to Race, with the race menu in the
\* reply; a shorter one re-prompts, with State and Data.Name as they were.
PlainInputs ==
    {input \in Inputs :
       /\ ~IsLLMQuestion(input)
       /\ ~IsGenerateCommand(input)
       /\ ToLower(TrimSpace(input)) \notin
            {Da, Yes, Y, In_Net, DavajDrugoe, Drugoe, Eschyo, Esche, Generate}
       /\ ~Contains(ToLower(TrimSpace(input)), Drug)}
C15_NameAcceptedFromTwoCharacters ==
    [][\A input \in PlainInputs :
         (ccState = CC_Name /\ CC_ProcessInput(input))
         => IF Len(input) >= 2
              THEN /\ ccData'.Name = input
                   /\ ccState' = CC_Race
                   /\ ccCall'.prompt = CC_Race /\ ccCall'.ok
              ELSE /\ ccState' = CC_Name
                   /\ ccData'.Name = ccData.Name
                   /\ ~ccCall'.ok]_vars

\* C16: in the Name state, after a name was generated, the answer "net"
\* rejects it: State stays Name and "net" does not become the name.
C16_NetRejects ==
    [][(/\ ccState = CC_Name
        /\ ccCall.msg = "generated_name_confirm"
        /\ ccData.Name # <<>>
        /\ CC_ProcessInput(In_Net))
       => /\ ccState' = CC_Name
          /\ ccData'.Name # In_Net]_vars

\* C17: in the Name state a generate command, with an LLM that returns a
\* name, stores the name without its emphasis marks, quotes and white space
\* in Data.Name, leaves State at Name and asks for confirmation; the
\* accepting answer that follows moves State to Race and keeps that name.
C17_GenerateThenConfirm ==
    [][/\ \A input \in GenerateInputs :
            (/\ ccState = CC_Name
             /\ CC_ProcessInput(input)
             /\ ccCall'.llm.kind = "answer"
             /\ ccCall'.llm.text # <<>>)
            => /\ ccData'.Name = Aldrik
               /\ ccState' = CC_Name
               /\ ccCall'.msg = "generated_name_confirm" /\ ccCall'.ok
       /\ (/\ ccState = CC_Name
           /\ ccCall.msg = "generated_name_confirm"
           /\ ccData.Name # <<>>
           /\ CC_ProcessInput(In_Da))
          => /\ ccState' = CC_Race
             /\ ccData'.Name = ccData.Name]_vars
\* a generated name was stored and then accepted
C17_Witness ==
    /\ ccState = CC_Race
    /\ ccData.Name = Aldrik
    /\ ccData.Race = ""
    /\ ccCall.prompt = CC_Race

\* C18: in the Race state a random roll r, for every r in 1..100, gives the
\* race of its bucket (1-90 human, 91-94 halfling, 95-98 dwarf, 99 high elf,
\* 100 wood elf), sets RaceBonusXP to 20, adds exactly 20 to TotalXP and
\* moves State to Career.
C18_RaceRoll ==
    [][(ccState = CC_Race /\ CC_ProcessInput(In_Brosit))
       => LET r == ccCall'.dice[1] IN
          /\ r \in 1..100
          /\ ccData'.Race = CASE r \in 1..90 -> Chelovek
                               [] r \in 91..94 -> Poluroslik
                               [] r \in 95..98 -> Gnom
                               [] r = 99 -> VysshijElf
                               [] r = 100 -> LesnojElf
          /\ ccData'.RaceBonusXP = 20
          /\ ccData'.TotalXP = ccData.TotalXP + 20
          /\ ccState' = CC_Career]_vars
\* the roll was 95, the first of the dwarf's
C18_Witness ==
    /\ ccState = CC_Career
    /\ ccCall.msg = "rolled_race"
    /\ ccCall.dice = <<95>>
    /\ ccData.Race = Gnom

\* C19: every recoverable input failure re-prompts with State and the
\* character data as they were: a race input that is not understood, a
\* choice in Career or Stats that is no number or not in 1..3, and a generate
\* command in the Name state when the LLM is absent or fails.
UnknownRaceInputs ==
    {input \in Inputs \ QuestionInputs :
       LET in == TrimSpace(ToLower(input)) IN
       /\ in \notin {Brosit, Roll, Random}
       /\ ~(Atoi(in).ok /\ Atoi(in).val \in 1..5)
       /\ in \notin {ChelovekLower, PoluroslikLower, GnomLower, VysshijElfLower,
                     ElfLower, LesnojElfLower}}
BadChoiceInputs ==
    {input \in Inputs \ QuestionInputs :
       LET choice == Atoi(TrimSpace(input)) IN ~(choice.ok /\ choice.val \in 1..3)}
C19_FailureKeepsEverything ==
    [][\A input \in Inputs :
         (/\ \/ ccState = CC_Race /\ input \in UnknownRaceInputs
             \/ ccState \in {CC_Career, CC_Stats} /\ input \in BadChoiceInputs
             \/ /\ ccState = CC_Name /\ input \in GenerateInputs
                /\ ccCall'.llm.kind # "answer"
          /\ CC_ProcessInput(input))
         => /\ ccState' = ccState
            /\ ccData' = ccData
            /\ ~ccCall'.ok]_vars
\* the LLM failed on a generate command that came after a generated name
C19_Witness ==
    /\ ccState = CC_Name
    /\ ccData.Name = Aldrik
    /\ ccCall.msg = "generate_failed_write_name"

\* C20: in the Career state option 1 sets the career from one d100 roll,
\* adds exactly 50 to Data.TotalXP and moves State to Stats.
C20_FirstRoll ==
    [][(ccState = CC_Career /\ CC_ProcessInput(In_1))
       => /\ Len(ccCall'.dice) = 2
          /\ ccData'.Class = ClassOfRoll(ccCall'.dice[1])
          /\ ccData'.Career.class = ccData'.Class
          /\ ccData'.TotalXP = ccData.TotalXP + 50
          /\ ccState' = CC_Stats]_vars

\* C21: in the Career state option 2 shows three rolled careers, and the
\* next numeric input k in 1..3 selects among them: Data.Career is then the
\* k-th career shown, State is Stats, and TotalXP is exactly 25 more than
\* before option 2 (which itself adds nothing yet).
ChoiceInputs == <<In_1, In_2, In_3>>
C21_ThreeRollsThenSelect ==
    [][/\ (/\ ccState = CC_Career
           /\ CC_ProcessInput(In_2))
          => /\ Len(ccCall'.dice) = 6
             /\ ccState' = CC_Career
             /\ ccData'.TotalXP = ccData.TotalXP
       /\ \A k \in 1..3 :
            (/\ ccState = CC_Career
             /\ ccCall.msg = "three_rolls_which"
             /\ CC_ProcessInput(ChoiceInputs[k]))
            => /\ ccData'.Career.class = ClassOfRoll(ccCall.dice[2 * k - 1])
               /\ ccData'.Career.pick = ccCall.dice[2 * k]
               /\ ccData'.TotalXP = ccData.TotalXP + 25
               /\ ccState' = CC_Stats]_vars

\* C22: in the Review state an answer other than "da", "yes" or "1" cancels
\* the creation for good: after the cancel no input moves State to Save (and
\* so to the saving of the character).
C22_CancelIsTerminal ==
    [][(ccState = CC_Review /\ ccCall.msg = "save_cancelled")
       => ccState' # CC_Save]_vars

\* C23: once State is Save, no ProcessInput call changes State or any field
\* of the character data.
C23_SaveAcceptsNothing ==
    [][ccState = CC_Save => (ccState' = CC_Save /\ ccData' = ccData)]_vars
\* an input came in the Save state and was answered without effect
C23_Witness == ccState = CC_Save /\ ccCall.msg = "saved"

\* C28: the classification goes generate command, then question, then
\* answer: an input with both "sgeneri" and a question mark generates a
\* name in the Name state and is a question in every other state, and an
\* input with a question marker never reaches the handler of a state.
GenerateReplies ==
    {"generated_name_confirm", "generate_failed_write_name", "llm_unavailable_write_name"}
QuestionReplies == {"explanation", "llm_error"}
C28_Precedence ==
    [][/\ (ccState = CC_Name /\ CC_ProcessInput(In_SgeneriQ))
          => ccCall'.msg \in GenerateReplies
       /\ (ccState # CC_Name /\ CC_ProcessInput(In_SgeneriQ))
          => ccCall'.msg \in QuestionReplies
       /\ \A input \in QuestionInputs :
            (/\ ~(ccState = CC_Name /\ input \in GenerateInputs)
             /\ CC_ProcessInput(input))
            => /\ ccCall'.msg \in QuestionReplies
               /\ ccData' = ccData]_vars
\* a question was answered in the Race step, and the race is still to choose
C28_Witness ==
    /\ ccState = CC_Race
    /\ ccCall.msg = "explanation"
    /\ ccCall.prompt = CC_Race
    /\ ccData.Race = ""

\* C29: from Skills, Talents and Gear every input that is no question
\* advances State by exactly one step (Skills to Talents, Talents to Gear,
\* Gear to Appearance), so that Appearance too awaits an input.
C29_OneStepAtATime ==
    [][\A input \in Inputs \ QuestionInputs :
         (/\ ccState \in {CC_Skills, CC_Talents, CC_Gear}
          /\ CC_ProcessInput(input))
         => ccState' = ccState + 1]_vars

\* C30: after Stats option 1 or 2 each of the ten characteristics is a roll
\* of 2d10+10 plus the flat bonus b of the race (30; halfling 20; high elf
\* 40), and so lies in b+12 .. b+30.
FlatBonus(race) ==
    CASE race = Poluroslik -> 20 [] race = VysshijElf -> 40 [] OTHER -> 30
StatsRolled == ccState = CC_Stats /\ (CC_ProcessInput(In_1) \/ CC_ProcessInput(In_2))
C30_StatsFrom2d10Plus10 ==
    [][StatsRolled
       => \A c \in CharNames :
            ccData'.Chars[c] - FlatBonus(ccData.Race) \in 12..30]_vars
\* C30, as the code has it: each characteristic is a roll of 2d10 (2..20)
\* plus the flat bonus b of the race, and so lies in b+2 .. b+20.
C30_StatsFrom2d10 ==
    [][StatsRolled
       => /\ \A c \in CharNames :
               ccData'.Chars[c] - FlatBonus(ccData.Race) \in 2..20
          /\ ccData'.Chars["WS"] = ccCall'.dice[1] + FlatBonus(ccData.Race)
          /\ ccData'.Chars["BS"] = ccCall'.dice[2] + FlatBonus(ccData.Race)]_vars
\* a halfling rolled the lowest sum for WS and the highest for BS
C30_Witness ==
    /\ ccState = CC_Skills
    /\ ccCall.msg = "characteristics"
    /\ ccData.Race = Poluroslik
    /\ ccData.Chars["WS"] = 22
    /\ ccData.Chars["BS"] = 40

\* The hit points a sheet states: the number behind its first "HP:".
StatedHP(sheet) ==
    LET idx == Index(sheet, HPMarker)
    IN  IF idx >= 0 THEN SscanfMarkerD(From(sheet, idx), HPMarker)
        ELSE [ok |-> FALSE, val |-> 0]

\* C24: for a sheet that states hit points above 0 ("HP: 10": current HP 10,
\* which ParseCharacterStats takes as MaxHP too) and any HPChange, the sheet
\* ApplyCharacterUpdate returns states hit points between 0 and MaxHP, and 0
\* when the damage is the current HP or more ("HP: 10", HPChange -15: "HP: 0").
C24_HPStaysWithinBounds ==
    (updOut.called /\ StatedHP(updSheet).ok /\ StatedHP(updSheet).val > 0) =>
        LET maxHP == StatedHP(updSheet).val
            written == StatedHP(updOut.sheet)
        IN  /\ written.ok
            /\ written.val \in 0..maxHP
            /\ (maxHP + updUpdate.HPChange <= 0 => written.val = 0)

\* The experience a sheet states: the number behind its first "XP:".
StatedXP(sheet) ==
    LET idx == Index(sheet, XPMarker)
    IN  IF idx >= 0 THEN SscanfMarkerD(From(sheet, idx), XPMarker)
        ELSE [ok |-> FALSE, val |-> 0]

\* C25: whatever sheet and update ApplyCharacterUpdate is given, an update
\* parsed from an LLM response included, the sheet it returns states no less
\* experience than the sheet it was given.
C25_XPNeverDecreases ==
    (updOut.called /\ StatedXP(updSheet).ok) =>
        /\ StatedXP(updOut.sheet).ok
        /\ StatedXP(updOut.sheet).val >= StatedXP(updSheet).val

\* The words ParseCharacterUpdateFromResponse looks for.
UpdateMarkers ==
    {Poluchil, TookDamage, Vylechen, Healed, PoluchilOpyt, GainedXP, Navyk, Skill,
     Ranenie, Wound, Krovotechenie, Bleeding, Krit, Critical}
HasNoMarker(response) ==
    LET lower == ToLower(response) IN \A m \in UpdateMarkers : ~Contains(lower, m)
NoMarkerResponses == {response \in Responses : HasNoMarker(response)}

\* C26: ParseCharacterUpdateFromResponse returns a nil error for every
\* response, and the empty update for a response with none of the damage,
\* healing, experience, skill and condition words; ProcessInput goes on with
\* the update parsed, and a response without the words leaves the sheet as it
\* was but for the time stamp.
C26_ParseNeverFails ==
    /\ updParsed.called =>
         /\ updParsed.err = "nil"
         /\ updResponse \in NoMarkerResponses => updParsed.update = EmptyUpdate
    /\ (updOut.called /\ updOut.by = "ProcessInput") =>
         /\ updParsed.err = "nil"
         /\ updUpdate = updParsed.update
         /\ updResponse \in NoMarkerResponses =>
               updOut.sheet = updSheet \o UpdatedOpen \o Clock \o UpdatedClose
\* a response without any of the words has been parsed, and its empty update
\* applied: the sheet came back with nothing but the time stamp added
C26_Witness ==
    /\ updParsed.called
    /\ updResponse \in NoMarkerResponses
    /\ updResponse # <<>>
    /\ updOut.called
    /\ updOut.by = "ProcessInput"
    /\ StatedHP(updSheet).ok

\* C31: whatever the two d20 of the appearance step show, the hair colour is
\* one of the 6 of its table and the eye colour one of the 5 of its table: the
\* entry at the roll's position for a roll within the table, the last entry
\* for a roll above its length.
C31_TableLookupsClamp ==
    ccCall.msg = "appearance" =>
        LET hairRoll == ccCall.dice[1]
            eyeRoll == ccCall.dice[2]
        IN  /\ ccData.HairColor \in 1..NumHairColors
            /\ ccData.EyeColor \in 1..NumEyeColors
            /\ ccData.HairColor = (IF hairRoll <= NumHairColors THEN hairRoll ELSE NumHairColors)
            /\ ccData.EyeColor = (IF eyeRoll <= NumEyeColors THEN eyeRoll ELSE NumEyeColors)
\* a hair roll within the table and an eye roll above it
C31_Witness ==
    /\ ccCall.msg = "appearance"
    /\ ccCall.dice[1] = 3 /\ ccData.HairColor = 3
    /\ ccCall.dice[2] = 17 /\ ccData.EyeColor = NumEyeColors

\* C32: the bot runs at most one HandleUpdate call at a time: a call begins
\* only when none is running, so the creators map and a chat's creator are
\* never used by two calls at once.
C32_OneUpdateAtATime ==
    /\ botInFlight \in {0, 1}
    /\ botInFlight = 0 <=> botPc = "select"
    /\ botInFlight = 0 <=> botUpdate = NoUpdate
\* a text for the chat's creator is being handled after an earlier update
\* (the command that made the creator) has returned
C32_Witness ==
    /\ botInFlight = 1
    /\ botUpdate.kind = "text"
    /\ botLast.route = "created"
    /\ creators # {}

StopInProgress(s) ==
    \/ wd[s] = "stop_lock"
    \/ \E p \in Procs : op[p] = "Stop" /\ arg[p].sess = s /\ pc[p] = "lock"

C34_StoppedStaysStopped ==
    \A s \in SessionUnderTest :
        cancelled[s] /\ ~StopInProgress(s) => State[s] = StateIdle

\* C35: per conversation id at most one session is live, that is, has its
\* context not cancelled and its watchdog running: a live session is the one
\* the registry holds for its chat, and a /start on a chat that already has
\* a session does not leave the replaced session running.  (Every session
\* of SpecBot was started by a /start of the one chat of BotChats.)
Live(s) == ~cancelled[s] /\ wd[s] \notin {"off", "exited"}

C35_OneLiveSessionPerChat ==
    \A c \in BotChats :
        /\ Cardinality({s \in Sessions : Live(s)}) <= 1
        /\ \A s \in Sessions : Live(s) => sessions[c] = s

\* C36: while a creation is active for a chat, every non-command text of the
\* chat is handed to its CharacterCreator and never to
\* SessionManager.ProcessPlayerMessage (no session is touched, no worker
\* enters a session); once the creator has been removed, on completion or
\* by /cancel, a text goes to the session path again.
HandlesText(c) ==
    /\ botPc = "handle" /\ botPc' # "handle"
    /\ botUpdate.kind = "text"

C36_TextGoesToTheCreator ==
    [][\A c \in BotChats :
         HandlesText(c) =>
            IF c \in creators
              THEN /\ botLast'.route = "creator"
                   /\ CC_ProcessInput(botUpdate.text)
                   /\ botPc' = "select"
                   /\ UNCHANGED <<mgrVars, sessVars>>
              ELSE /\ botLast'.route = "session"
                   /\ UNCHANGED ccVars]_vars

\* a creation ran to its end, its creator is gone, and the next text of the
\* chat went to the session
C36_Witness ==
    /\ charFile.written
    /\ creators = {}
    /\ botLast.kind = "text" /\ botLast.route = "session"

\* C37: at most one creation is active per chat: a /newchar or a
\* /character <name> that arrives while the chat has a creator is rejected
\* and leaves the map and the creator's State and Data as they were.
StartsCreation ==
    /\ botPc = "handle" /\ botPc' # "handle"
    /\ \/ botUpdate.kind = "newchar"
       \/ botUpdate.kind = "character" /\ botUpdate.text # <<>>

C37_OneCreationPerChat ==
    [][\A c \in BotChats :
         StartsCreation /\ c \in creators =>
            /\ botLast'.route = "rejected"
            /\ UNCHANGED <<creators, ccVars>>]_vars

\* a creator that is past its first step has just survived a /newchar
C37_Witness ==
    /\ botLast.kind = "newchar" /\ botLast.route = "rejected"
    /\ creators = BotChats
    /\ ccState # CC_Name
    /\ ccData.Name # <<>>

\* C38: a creator is removed on completion only after its character has been
\* persisted: whenever ProcessCharacterCreation deletes a creator that
\* reached Save, SaveToFile succeeded, so a failed save never discards the
\* character.
C38_DeletedOnlyWhenSaved ==
    botLast.kind = "text" /\ botLast.route = "creator" /\ botLast.deleted
        => botLast.save = "ok"

\* C39: every job accepted by Streamer.Stream is sent completely and the
\* streamer keeps serving: the queue worker never blocks forever inside a
\* job's callback, so the rest of the job's chunks and the later jobs are
\* still processed.  The worker is never at a callback whose resultChan is
\* full while the only receiver of that channel, the Stream call, has
\* already returned.
C39_WorkerNeverStuckInCallback ==
    ~ /\ strWorker.pc = "callback"
      /\ Len(strJobs[strWorker.job].resultChan) = ResultChanCap
      /\ strJobs[strWorker.job].pc = "returned"

\* C40: ProviderManager.ReloadProvider is all-or-nothing.  A call that fails
\* returns its error with the current provider and config as it found them;
\* a call that succeeds has replaced both, by the provider made from the new
\* config and that config, inside its one critical section, so whoever takes
\* the mutex finds a provider together with the config it was made from.
ReloadDone(p) == pmCall[p].pc = "unlock"

C40_ReloadIsAllOrNothing ==
    /\ \A p \in Procs :
         ReloadDone(p) =>
            IF pmCall[p].err = "nil"
              THEN /\ pmProvider = NewProviderFromConfig(pmCall[p].newConfig).provider
                   /\ pmConfig = pmCall[p].newConfig
              ELSE /\ pmProvider = pmCall[p].before.provider
                   /\ pmConfig = pmCall[p].before.config
    /\ pmMu = None => pmProvider.config = pmConfig
    /\ \A p \in Procs : pmCall[p].seen.provider # NilProvider
                            => pmCall[p].seen.provider.config = pmCall[p].seen.config

\* a reload has replaced provider and config, a later one has failed and is
\* about to return its error, and a reader saw the replaced pair
C40_Witness ==
    \E p \in Procs, q \in Procs :
        /\ ReloadDone(p) /\ pmCall[p].err = "failed"
        /\ pmConfig # InitialConfig
        /\ pmCall[q].seen.config = pmConfig

====
